---- MODULE Spec2Model ----
(***************************************************************************)
(* Schema algebra engine of schema-builder: the Builder documents          *)
(* (SchemaBuilder.ts), the helpers of utils.ts (ThroughJsonSchema,         *)
(* CloneJSON, SetRequired) and the defaults resolver (Default.ts).         *)
(*                                                                         *)
(* JSON values live in a heap of mutable nodes: a Document holds the id    *)
(* of its root node, so that two Documents holding the same node id alias  *)
(* the same JavaScript object.                                             *)
(***************************************************************************)
EXTENDS Integers, Sequences, FiniteSets, TLC

VARIABLES heap, docs, last, calls

vars == <<heap, docs, last, calls>>

(***************************************************************************)
(* Bounds of the model.                                                    *)
(***************************************************************************)
\* number of API calls made after the initial documents were built
MaxCalls == 1

\* length of the name lists handed to the operations
MaxNames == 2

(***************************************************************************)
(* JSON schema nodes.  Every keyword is a field [k, v]: k tells whether    *)
(* the keyword is present and in which form, v is a sequence holding its   *)
(* content.  Child schemas are node ids in the heap (0 is `undefined`)     *)
(* and nested values in a tree value.                                      *)
(***************************************************************************)
Absent == [k |-> "absent", v |-> <<>>]

F(k, v) == [k |-> k, v |-> v]

Has(f) == f.k # "absent"

EmptyNode ==
    [ kind                 |-> "schema",
      type                 |-> Absent,   \* "scalar" <<t>> | "array" <<t1, ...>>
      properties           |-> Absent,   \* "map" <<[name, c], ...>>
      required             |-> Absent,   \* "array" <<name, ...>>
      additionalProperties |-> Absent,   \* "false" | "true" | "schema" <<c>>
      oneOf                |-> Absent,   \* "array" <<c, ...>>
      allOf                |-> Absent,
      anyOf                |-> Absent,
      items                |-> Absent,   \* "schema" <<c>> | "array" <<c, ...>>
      not                  |-> Absent,   \* "schema" <<c>>
      default              |-> Absent,   \* "value" <<x>>
      enum                 |-> Absent,   \* "array" <<x, ...>>
      ref                  |-> Absent,   \* "string" <<path>>
      definitions          |-> Absent,   \* "map" <<[name, c], ...>>
      title                |-> Absent ]  \* "string" <<s>>

\* the tree value `undefined` (CloneJSON and ThroughJsonSchema both accept it)
Undefined == [EmptyNode EXCEPT !.kind = "undefined"]

IsUndefined(t) == t.kind = "undefined"

\* v bound to a name in Body, evaluated once
Let(v, Body(_)) == Body(v)

\* the sequence given as a function over 1..n
Tup(f) == <<>> \o f

RECURSIVE SumSeq(_)
SumSeq(s) == IF Len(s) = 0 THEN 0 ELSE Head(s) + SumSeq(Tail(s))

RECURSIVE Concat(_)
Concat(ss) == IF Len(ss) = 0 THEN <<>> ELSE Head(ss) \o Concat(Tail(ss))

SeqToSet(s) == {s[i] : i \in 1..Len(s)}

InSeq(x, s) == \E i \in 1..Len(s) : s[i] = x

\* Array.prototype.indexOf, 1-based; 0 when absent
IndexOf(s, x) == IF InSeq(x, s) THEN CHOOSE i \in 1..Len(s) : s[i] = x /\ \A j \in 1..(i - 1) : s[j] # x ELSE 0

MapC(pairs) == Tup([i \in 1..Len(pairs) |-> pairs[i].c])

\* the child slots of a node, in one fixed order
Kids(n) ==
    MapC(n.properties.v) \o n.oneOf.v \o n.allOf.v \o n.anyOf.v \o n.items.v
        \o n.not.v \o n.additionalProperties.v \o MapC(n.definitions.v)

\* the node with its child slots refilled from ks (same order as Kids)
WithKids(n, ks) ==
    LET np == Len(n.properties.v)
        o2 == np + Len(n.oneOf.v)
        o3 == np + Len(n.oneOf.v) + Len(n.allOf.v)
        o4 == np + Len(n.oneOf.v) + Len(n.allOf.v) + Len(n.anyOf.v)
        o5 == np + Len(n.oneOf.v) + Len(n.allOf.v) + Len(n.anyOf.v) + Len(n.items.v)
        o6 == np + Len(n.oneOf.v) + Len(n.allOf.v) + Len(n.anyOf.v) + Len(n.items.v) + Len(n.not.v)
        o7 == np + Len(n.oneOf.v) + Len(n.allOf.v) + Len(n.anyOf.v) + Len(n.items.v) + Len(n.not.v)
                + Len(n.additionalProperties.v)
        sub(lo, hi) == Tup([i \in 1..(hi - lo) |-> ks[lo + i]])
    IN  [n EXCEPT
            !.properties.v = Tup([i \in 1..np |-> [name |-> n.properties.v[i].name, c |-> ks[i]]]),
            !.oneOf.v = sub(np, o2),
            !.allOf.v = sub(o2, o3),
            !.anyOf.v = sub(o3, o4),
            !.items.v = sub(o4, o5),
            !.not.v = sub(o5, o6),
            !.additionalProperties.v = sub(o6, o7),
            !.definitions.v =
                Tup([i \in 1..Len(n.definitions.v) |->
                    [name |-> n.definitions.v[i].name, c |-> ks[o7 + i]]])]

\* the JSON value held at node id: the tree below it
RECURSIVE Val(_, _)
Val(h, id) ==
    IF id = 0 THEN Undefined
    ELSE Let(Kids(h[id]), LAMBDA ks :
            WithKids(h[id], Tup([i \in 1..Len(ks) |-> Val(h, ks[i])])))

\* number of objects in a tree value
RECURSIVE Size(_)
Size(t) ==
    IF IsUndefined(t) THEN 0
    ELSE Let(Kids(t), LAMBDA ks : 1 + SumSeq(Tup([i \in 1..Len(ks) |-> Size(ks[i])])))

\* fresh nodes for the tree value t, the root at id base, in pre-order
RECURSIVE Flatten(_, _)
Flatten(t, base) ==
    IF IsUndefined(t) THEN <<>>
    ELSE Let(Kids(t), LAMBDA ks :
         Let(Tup([i \in 1..Len(ks) |-> base + 1 + SumSeq(Tup([j \in 1..(i - 1) |-> Size(ks[j])]))]),
             LAMBDA off :
                <<WithKids(t, Tup([i \in 1..Len(ks) |-> IF IsUndefined(ks[i]) THEN 0 ELSE off[i]]))>>
                    \o Concat(Tup([i \in 1..Len(ks) |-> Flatten(ks[i], off[i])]))))

\* a new object graph for the tree value t: [h |-> heap with it, id |-> its root]
Alloc(h, t) ==
    IF IsUndefined(t) THEN [h |-> h, id |-> 0]
    ELSE [h |-> h \o Flatten(t, Len(h) + 1), id |-> Len(h) + 1]

\* a copy that hands its argument back
CloneJSONShallow(h, id) == [h |-> h, id |-> id]

\* utils.ts CloneJSON: a deep copy, every object and array of it new
CloneJSON(h, id) == Alloc(h, Val(h, id))

\* node ids reachable from id (id included)
RECURSIVE Reach(_, _)
Reach(h, id) ==
    IF id = 0 THEN {}
    ELSE {id} \cup UNION {Reach(h, c) : c \in SeqToSet(Kids(h[id]))}

(***************************************************************************)
(* utils.ts ThroughJsonSchema: the nodes the action is called on, in call  *)
(* order.  An array recurses element-wise; null, undefined and primitives  *)
(* are skipped; `definitions` is not descended into.                       *)
(***************************************************************************)
\* a traversal that descends before it calls the action, into `not` and
\* `items` ahead of the combination keywords
RECURSIVE ThroughJsonSchemaLate(_, _)
ThroughJsonSchemaLate(h, id) ==
    IF id = 0 THEN <<>>
    ELSE LET each(s) == Concat(Tup([i \in 1..Len(s) |-> ThroughJsonSchemaLate(h, s[i])]))
         IN  each(MapC(h[id].properties.v))
                \o each(h[id].not.v)
                \o each(h[id].items.v)
                \o each(h[id].oneOf.v)
                \o each(h[id].allOf.v)
                \o each(h[id].anyOf.v)
                \o each(h[id].additionalProperties.v)
                \o <<id>>

RECURSIVE ThroughJsonSchema(_, _)
ThroughJsonSchema(h, id) ==
    IF id = 0 THEN <<>>
    ELSE LET each(s) == Concat(Tup([i \in 1..Len(s) |-> ThroughJsonSchema(h, s[i])]))
         IN  <<id>>
                \o each(MapC(h[id].properties.v))
                \o each(h[id].oneOf.v)
                \o each(h[id].allOf.v)
                \o each(h[id].anyOf.v)
                \o each(h[id].items.v)
                \o each(h[id].not.v)
                \o each(h[id].additionalProperties.v)

(***************************************************************************)
(* Literal schemas handed to the factories.                                *)
(***************************************************************************)
Scalar(t) == [EmptyNode EXCEPT !.type = F("scalar", <<t>>)]

P(name, c) == [name |-> name, c |-> c]

ObjectLit(props, req, addl) ==
    [EmptyNode EXCEPT
        !.type = F("scalar", <<"object">>),
        !.properties = F("map", props),
        !.required = IF Len(req) = 0 THEN Absent ELSE F("array", req),
        !.additionalProperties = addl]

StringD == [Scalar("string") EXCEPT !.default = F("value", <<1>>)]

RefNode == [EmptyNode EXCEPT !.ref = F("string", <<"#/definitions/Base">>)]

\* {type: "object", properties: {a: string (default), b: integer}, required: [a], additionalProperties: false}
LitAB == ObjectLit(<<P("a", StringD), P("b", Scalar("integer"))>>, <<"a">>, F("false", <<>>))

\* {type: "object", properties: {b: number, c: array of string}, required: [c, b], additionalProperties: false}
LitBC ==
    ObjectLit(<<P("b", Scalar("number")),
                P("c", [Scalar("array") EXCEPT !.items = F("schema", <<Scalar("string")>>)])>>,
              <<"c", "b">>, F("false", <<>>))

\* {type: "object", properties: {a: boolean}, required: [a], additionalProperties: {type: "string"}}
LitAddl == ObjectLit(<<P("a", Scalar("boolean"))>>, <<"a">>, F("schema", <<Scalar("string")>>))

\* {type: "object", properties: {a: string}, required: [a], additionalProperties: false}
LitA == ObjectLit(<<P("a", Scalar("string"))>>, <<"a">>, F("false", <<>>))

\* {type: "object", properties: {a: string}, required: [a, b], additionalProperties: false}
LitStale == ObjectLit(<<P("a", Scalar("string"))>>, <<"a", "b">>, F("false", <<>>))

\* {type: "object", properties: {a: {type: "string", enum: ["x"]}, b: {type: ["string", "integer"]},
\*  c: {enum: ["x"]}}, additionalProperties: false} : every property optional
LitOptional ==
    ObjectLit(<<P("a", [Scalar("string") EXCEPT !.enum = F("array", <<"x">>)]),
                P("b", [EmptyNode EXCEPT !.type = F("array", <<"string", "integer">>)]),
                P("c", [EmptyNode EXCEPT !.enum = F("array", <<"x">>)])>>,
              <<>>, F("false", <<>>))

\* {properties: {a: string}} : no type, no additionalProperties keyword
LitOpen == [EmptyNode EXCEPT !.properties = F("map", <<P("a", Scalar("string"))>>)]

\* {type: "object", properties: {a: string}, additionalProperties: false, oneOf: [{required: [a]}]}
LitCombi ==
    [ObjectLit(<<P("a", Scalar("string"))>>, <<>>, F("false", <<>>)) EXCEPT
        !.oneOf = F("array", <<[EmptyNode EXCEPT !.required = F("array", <<"a">>)]>>)]

\* {type: "array", items: {type: "integer"}}
LitArray == [Scalar("array") EXCEPT !.items = F("schema", <<Scalar("integer")>>)]

\* {type: "object", properties: {a: {$ref}}, additionalProperties: false}
LitRefProp == ObjectLit(<<P("a", RefNode)>>, <<>>, F("false", <<>>))

\* {type: "object", additionalProperties: false, definitions: {Base: {$ref}}}
LitRefDef ==
    [ObjectLit(<<>>, <<>>, F("false", <<>>)) EXCEPT
        !.properties = Absent,
        !.definitions = F("map", <<P("Base", RefNode)>>)]

(***************************************************************************)
(* SchemaBuilder.ts: the Builder Document.  A Document is [root, cfg]: the *)
(* id of its schemaObject and its validationConfig.  Every operation is    *)
(* an operator from the heap and its arguments to a result                 *)
(* [h, id, cfg, err]: the heap after the call, the schemaObject and        *)
(* validationConfig of the returned Document, and the error thrown         *)
(* ("none" when the call returns).                                         *)
(***************************************************************************)
Ok(h, id, cfg) == [h |-> h, id |-> id, cfg |-> cfg, err |-> "none"]

Throw(h, e) == [h |-> h, id |-> 0, cfg |-> "undefined", err |-> e]

\* constructor: throws when ThroughJsonSchema meets a node with a $ref key
SchemaBuilder(h, id, cfg) ==
    IF \E n \in SeqToSet(ThroughJsonSchema(h, id)) : Has(h[n].ref)
    THEN Throw(h, "RefError")
    ELSE Ok(h, id, cfg)

IsObjectSchema(h, id) ==
    \/ h[id].type = F("scalar", <<"object">>)
    \/ ~Has(h[id].type) /\ Has(h[id].properties)

HasAdditionalProperties(h, id) ==
    IsObjectSchema(h, id) /\ h[id].additionalProperties.k # "false"

HasSchemasCombinationKeywords(h, id) ==
    Has(h[id].oneOf) \/ Has(h[id].allOf) \/ Has(h[id].anyOf) \/ Has(h[id].not)

\* IsSimpleObjectSchema without the test of the combination keywords
IsSimpleObjectSchemaCombined(h, id) == IsObjectSchema(h, id) /\ ~HasAdditionalProperties(h, id)

IsSimpleObjectSchema(h, id) ==
    IsObjectSchema(h, id) /\ ~HasAdditionalProperties(h, id) /\ ~HasSchemasCombinationKeywords(h, id)

\* `name in properties`
PropIn(pairs, name) == \E i \in 1..Len(pairs) : pairs[i].name = name

\* properties[name]: the child, 0 (undefined) when the key is missing
PropGet(pairs, name) ==
    IF PropIn(pairs, name) THEN pairs[CHOOSE i \in 1..Len(pairs) : pairs[i].name = name].c ELSE 0

\* properties[name] = c: an existing key keeps its place, a new key goes last
PropSet(pairs, name, c) ==
    IF PropIn(pairs, name)
    THEN Tup([i \in 1..Len(pairs) |-> IF pairs[i].name = name THEN P(name, c) ELSE pairs[i]])
    ELSE Append(pairs, P(name, c))

\* delete properties[name]
PropDel(pairs, name) == SelectSeq(pairs, LAMBDA p : p.name # name)

\* Object.keys(properties)
PropNames(pairs) == Tup([i \in 1..Len(pairs) |-> pairs[i].name])

\* Array.prototype.filter(e => e !== x)
Without(s, x) == SelectSeq(s, LAMBDA e : e # x)

\* _.difference(a, b)
Difference(a, b) == SelectSeq(a, LAMBDA e : ~InSeq(e, b))

\* Array.prototype.splice(indexOf(x), 1)
RemoveFirst(s, x) == SubSeq(s, 1, IndexOf(s, x) - 1) \o SubSeq(s, IndexOf(s, x) + 1, Len(s))

\* the heap with Op applied to the nodes in ids
OnNodes(h, ids, Op(_)) == Tup([i \in 1..Len(h) |-> IF i \in ids THEN Op(h[i]) ELSE h[i]])

\* `schemaObject.properties = schemaObject.properties || {}`
EnsureProperties(h, id) ==
    IF Has(h[id].properties) THEN h ELSE [h EXCEPT ![id].properties = F("map", <<>>)]

\* `schemaObject.required = schemaObject.required || []` followed by push(name)
PushRequired(h, id, name) ==
    [h EXCEPT ![id].required = F("array", Append(h[id].required.v, name))]

\* properties[name] = c on the schemaObject so
SetProperty(h, so, name, c) == [h EXCEPT ![so].properties.v = PropSet(h[so].properties.v, name, c)]

\* utils.ts SetRequired
SetRequired(h, id, required) ==
    IF Len(required) = 0
    THEN [h EXCEPT ![id].required = Absent]
    ELSE [h EXCEPT ![id].required = F("array", required)]

\* a property that keeps its default
KeepDefault(n) == n

\* `delete property.default`
DeleteDefault(n) == [n EXCEPT !.default = Absent]

SetOptionalProperties(h, d, properties) ==
    IF ~IsSimpleObjectSchema(h, d.root) THEN Throw(h, "PreconditionError")
    ELSE Let(CloneJSON(h, d.root), LAMBDA c :
         Let(OnNodes(c.h,
                     {PropGet(c.h[c.id].properties.v, properties[i]) : i \in 1..Len(properties)} \ {0},
                     DeleteDefault),
             LAMBDA h1 :
                SchemaBuilder(SetRequired(h1, c.id, Difference(c.h[c.id].required.v, properties)),
                              c.id, d.cfg)))

RECURSIVE SetRequiredLoop(_, _, _)
SetRequiredLoop(h, so, properties) ==
    IF Len(properties) = 0 THEN h
    ELSE SetRequiredLoop(
            IF InSeq(Head(properties), h[so].required.v)
            THEN [h EXCEPT ![so].required.k = "array"]
            ELSE PushRequired(h, so, Head(properties)),
            so, Tail(properties))

SetRequiredProperties(h, d, properties) ==
    IF ~IsSimpleObjectSchema(h, d.root) THEN Throw(h, "PreconditionError")
    ELSE Let(CloneJSON(h, d.root), LAMBDA c :
            SchemaBuilder(SetRequiredLoop(c.h, c.id, properties), c.id, d.cfg))

ToOptionals(h, d) ==
    Let(CloneJSON(h, d.root), LAMBDA c :
    Let([c.h EXCEPT ![c.id].required = Absent], LAMBDA h1 :
        IF InSeq(0, MapC(h1[c.id].properties.v)) THEN Throw(h1, "TypeError")
        ELSE SchemaBuilder(OnNodes(h1, SeqToSet(MapC(h1[c.id].properties.v)), DeleteDefault),
                           c.id, d.cfg)))

DeleteRequiredAndDefault(n) == [n EXCEPT !.required = Absent, !.default = Absent]

ToDeepOptionals(h, d) ==
    Let(CloneJSON(h, d.root), LAMBDA c :
        SchemaBuilder(OnNodes(c.h, SeqToSet(ThroughJsonSchema(c.h, c.id)), DeleteRequiredAndDefault),
                      c.id, d.cfg))

NullType == Scalar("null")

NullValue == "null"

\* a widening that does not look for a null that is already there
WidenedAgain(n) ==
    [n EXCEPT
        !.type = IF n.type.k = "array" THEN F("array", Append(n.type.v, "null"))
                 ELSE F("array", <<n.type.v[1], "null">>),
        !.enum = IF Has(n.enum) THEN F("array", Append(n.enum.v, NullValue)) ELSE n.enum]

\* a widening that only knows the scalar type
WidenedScalarOnly(n) ==
    [n EXCEPT !.type = IF n.type.k = "scalar" /\ n.type.v # <<"null">>
                       THEN F("array", <<n.type.v[1], "null">>)
                       ELSE n.type]

\* the widening of one optional property that has a `type` keyword
Widened(n) ==
    [n EXCEPT
        !.type = IF n.type.k = "array" /\ ~InSeq("null", n.type.v)
                 THEN F("array", Append(n.type.v, "null"))
                 ELSE IF n.type.k = "scalar" /\ n.type.v # <<"null">>
                 THEN F("array", <<n.type.v[1], "null">>)
                 ELSE n.type,
        !.enum = IF Has(n.enum) /\ ~InSeq(NullValue, n.enum.v)
                 THEN F("array", Append(n.enum.v, NullValue))
                 ELSE n.enum]

\* properties[name] = {anyOf: [properties[name], {type: "null"}]}
WrapNullable(h, so, name, c) ==
    SetProperty(h \o <<NullType, [EmptyNode EXCEPT !.anyOf = F("array", <<c, Len(h) + 1>>)]>>,
                so, name, Len(h) + 2)

RECURSIVE ToNullableLoop(_, _, _, _)
ToNullableLoop(h, so, required, i) ==
    IF i > Len(h[so].properties.v) THEN [h |-> h, err |-> "none"]
    ELSE Let(h[so].properties.v[i], LAMBDA p :
            IF InSeq(p.name, required) THEN ToNullableLoop(h, so, required, i + 1)
            ELSE IF p.c = 0 THEN [h |-> h, err |-> "TypeError"]
            ELSE IF Has(h[p.c].type)
            THEN ToNullableLoop([h EXCEPT ![p.c] = Widened(h[p.c])], so, required, i + 1)
            ELSE ToNullableLoop(WrapNullable(h, so, p.name, p.c), so, required, i + 1))

ToNullable(h, d) ==
    IF ~IsSimpleObjectSchema(h, d.root) THEN Throw(h, "PreconditionError")
    ELSE Let(CloneJSON(h, d.root), LAMBDA c :
         Let(ToNullableLoop(c.h, c.id, c.h[c.id].required.v, 1), LAMBDA r :
            IF r.err # "none" THEN Throw(r.h, r.err) ELSE SchemaBuilder(r.h, c.id, d.cfg)))

IsRequiredArg(isRequired) == isRequired = "true" \/ isRequired = "undefined"

\* properties[name] = CloneJSON(schemaBuilder.schemaObject), then the push on `required`
StoreProperty(h, so, name, schemaObject, isRequired) ==
    Let(CloneJSON(h, schemaObject), LAMBDA cb :
    Let(SetProperty(cb.h, so, name, cb.id), LAMBDA h1 :
        IF IsRequiredArg(isRequired) THEN PushRequired(h1, so, name) ELSE h1))

AddProperty(h, d, propertyName, b, isRequired) ==
    IF ~IsObjectSchema(h, d.root) THEN Throw(h, "PreconditionError")
    ELSE Let(CloneJSON(h, d.root), LAMBDA c :
         Let(EnsureProperties(c.h, c.id), LAMBDA h1 :
            IF PropIn(h1[c.id].properties.v, propertyName) THEN Throw(h1, "AlreadyExists")
            ELSE SchemaBuilder(StoreProperty(h1, c.id, propertyName, b.root, isRequired), c.id, d.cfg)))

GetSubschema(h, d, propertyName) ==
    IF ~IsSimpleObjectSchema(h, d.root) \/ ~Has(h[d.root].properties)
    THEN Throw(h, "PreconditionError")
    ELSE SchemaBuilder(h, PropGet(h[d.root].properties.v, propertyName), "undefined")

GetItemsSubschema(h, d) ==
    IF h[d.root].type # F("scalar", <<"array">>) \/ h[d.root].items.k # "schema"
    THEN Throw(h, "PreconditionError")
    ELSE SchemaBuilder(h, h[d.root].items.v[1], "undefined")

\* `required = required.filter(p => p !== propertyName)` when `required` is set
FilterRequired(h, so, name) ==
    IF Has(h[so].required) THEN [h EXCEPT ![so].required.v = Without(h[so].required.v, name)] ELSE h

\* resolver: "identity" is the function s => s, "builder" hands the Document b over
ReplaceProperty(h, d, propertyName, resolver, b, isRequired) ==
    IF ~IsObjectSchema(h, d.root) THEN Throw(h, "PreconditionError")
    ELSE Let(CloneJSON(h, d.root), LAMBDA c :
         Let(FilterRequired(EnsureProperties(c.h, c.id), c.id, propertyName), LAMBDA h1 :
         Let(IF resolver = "identity" THEN GetSubschema(h1, d, propertyName) ELSE Ok(h1, b.root, b.cfg),
             LAMBDA sb :
                IF sb.err # "none" THEN Throw(h1, sb.err)
                ELSE SchemaBuilder(StoreProperty(h1, c.id, propertyName, sb.id, isRequired),
                                   c.id, d.cfg))))

AddOrReplaceProperty(h, d, propertyName, b, isRequired) ==
    ReplaceProperty(h, d, propertyName, "builder", b, isRequired)

\* withSchema: a schemaBuilder argument is given
AddAdditionalProperties(h, d, withSchema, b) ==
    IF h[d.root].additionalProperties.k \in {"true", "schema"} THEN Throw(h, "AlreadySet")
    ELSE Let(CloneJSON(h, d.root), LAMBDA c :
            IF withSchema
            THEN Let(CloneJSON(c.h, b.root), LAMBDA cb :
                    SchemaBuilder([cb.h EXCEPT ![c.id].additionalProperties = F("schema", <<cb.id>>)],
                                  c.id, d.cfg))
            ELSE SchemaBuilder([c.h EXCEPT ![c.id].additionalProperties = F("true", <<>>)], c.id, d.cfg))

RECURSIVE CloneAll(_, _)
CloneAll(h, ids) ==
    IF Len(ids) = 0 THEN [h |-> h, ids |-> <<>>]
    ELSE Let(CloneJSON(h, Head(ids)), LAMBDA c :
         Let(CloneAll(c.h, Tail(ids)), LAMBDA r :
            [h |-> r.h, ids |-> <<c.id>> \o r.ids]))

\* a new object {keyword: [clones of ids]}, keyword being anyOf or oneOf
CloneInto(h, keyword, ids) ==
    Let(CloneAll(h, ids), LAMBDA r :
        [h  |-> r.h \o <<IF keyword = "anyOf"
                         THEN [EmptyNode EXCEPT !.anyOf = F("array", r.ids)]
                         ELSE [EmptyNode EXCEPT !.oneOf = F("array", r.ids)]>>,
         id |-> Len(r.h) + 1])

\* the schema stored for one entry e of a properties definition (Object, AddProperties):
\* e.alts are the schemaObjects of the builders left by filter(v => !!v)
DefinitionSchema(h, e) ==
    IF e.array /\ Len(e.alts) # 1 THEN CloneInto(h, "anyOf", e.alts) ELSE CloneJSON(h, e.alts[1])

DefinitionRequired(e) == ~e.array \/ ~e.hasUndefined

RECURSIVE AddPropertiesLoop(_, _, _)
AddPropertiesLoop(h, so, def) ==
    IF Len(def) = 0 THEN h
    ELSE Let(DefinitionSchema(h, Head(def)), LAMBDA c :
         Let(SetProperty(c.h, so, Head(def).name, c.id), LAMBDA h1 :
            AddPropertiesLoop(
                IF DefinitionRequired(Head(def)) THEN PushRequired(h1, so, Head(def).name) ELSE h1,
                so, Tail(def))))

AddProperties(h, d, propertiesDefinition) ==
    IF ~IsObjectSchema(h, d.root) THEN Throw(h, "PreconditionError")
    ELSE Let(CloneJSON(h, d.root), LAMBDA c :
         Let(EnsureProperties(c.h, c.id), LAMBDA h1 :
            IF \E i \in 1..Len(propertiesDefinition) :
                    PropIn(h1[c.id].properties.v, propertiesDefinition[i].name)
            THEN Throw(h1, "AlreadyExists")
            ELSE SchemaBuilder(AddPropertiesLoop(h1, c.id, propertiesDefinition), c.id, d.cfg)))

\* the required array with the entry of propertyName spliced out and newPropertyName pushed
RenameRequired(h, so, propertyName, newPropertyName) ==
    IF Has(h[so].required) /\ InSeq(propertyName, h[so].required.v)
    THEN [h EXCEPT ![so].required.v = Append(RemoveFirst(h[so].required.v, propertyName), newPropertyName)]
    ELSE h

RenameProperty(h, d, propertyName, newPropertyName) ==
    IF ~IsSimpleObjectSchema(h, d.root) THEN Throw(h, "PreconditionError")
    ELSE Let(CloneJSON(h, d.root), LAMBDA c :
         Let(EnsureProperties(c.h, c.id), LAMBDA h1 :
            IF PropIn(h1[c.id].properties.v, propertyName)
            THEN Let([h1 EXCEPT ![c.id].properties.v =
                        PropDel(PropSet(h1[c.id].properties.v, newPropertyName,
                                        PropGet(h1[c.id].properties.v, propertyName)),
                                propertyName)],
                     LAMBDA h2 :
                        SchemaBuilder(RenameRequired(h2, c.id, propertyName, newPropertyName),
                                      c.id, d.cfg))
            ELSE SchemaBuilder(h1, c.id, d.cfg)))

\* propertiesMap[property] = properties[property] for each property of the list
RECURSIVE PickMap(_, _, _)
PickMap(ps, properties, map) ==
    IF Len(properties) = 0 THEN map
    ELSE PickMap(ps, Tail(properties), PropSet(map, Head(properties), PropGet(ps, Head(properties))))

\* the filter of `required` by the picked names, the empty array deleted
PickRequired(required, properties) ==
    IF ~Has(required) THEN required
    ELSE IF \A i \in 1..Len(required.v) : ~InSeq(required.v[i], properties) THEN Absent
    ELSE F("array", SelectSeq(required.v, LAMBDA x : InSeq(x, properties)))

\* the clone with its properties and required narrowed to the picked names
Picked(h, so, properties) ==
    [h EXCEPT
        ![so].properties = F("map", PickMap(h[so].properties.v, properties, <<>>)),
        ![so].required = PickRequired(h[so].required, properties)]

PickProperties(h, d, properties) ==
    IF ~IsObjectSchema(h, d.root) \/ HasSchemasCombinationKeywords(h, d.root)
    THEN Throw(h, "PreconditionError")
    ELSE Let(CloneJSON(h, d.root), LAMBDA c :
         Let(Picked(c.h, c.id, properties), LAMBDA h1 :
            SchemaBuilder([h1 EXCEPT ![c.id].additionalProperties = F("false", <<>>)], c.id, d.cfg)))

\* the object stored for one captured additional property
AdditionalClone(h, additionalProps) ==
    IF additionalProps.k = "true"
    THEN [h |-> h \o <<EmptyNode>>, id |-> Len(h) + 1]
    ELSE CloneJSON(h, additionalProps.v[1])

RECURSIVE KeepLoop(_, _, _, _)
KeepLoop(h, so, additionalProps, keep) ==
    IF Len(keep) = 0 THEN h
    ELSE Let(AdditionalClone(h, additionalProps), LAMBDA c :
            KeepLoop(PushRequired(SetProperty(c.h, so, Head(keep), c.id), so, Head(keep)),
                     so, additionalProps, Tail(keep)))

\* additionalProperties: [k |-> "undefined"] when omitted, else [k |-> "array", v |-> names]
PickAdditionalProperties(h, d, properties, additionalProperties) ==
    IF ~IsObjectSchema(h, d.root) \/ ~HasAdditionalProperties(h, d.root)
            \/ HasSchemasCombinationKeywords(h, d.root)
    THEN Throw(h, "PreconditionError")
    ELSE Let(CloneJSON(h, d.root), LAMBDA c :
         Let(c.h[c.id].additionalProperties, LAMBDA additionalProps :
         Let(Picked(c.h, c.id, properties), LAMBDA h1 :
            IF additionalProperties.k = "undefined"
            THEN SchemaBuilder([h1 EXCEPT ![c.id].additionalProperties =
                                    IF Has(additionalProps) THEN additionalProps ELSE F("true", <<>>)],
                               c.id, d.cfg)
            ELSE IF Len(additionalProperties.v) = 0
            THEN SchemaBuilder([h1 EXCEPT ![c.id].additionalProperties = F("false", <<>>)], c.id, d.cfg)
            ELSE Let([h1 EXCEPT ![c.id].additionalProperties = F("false", <<>>),
                                ![c.id].required.k = "array"],
                     LAMBDA h2 :
                        IF Has(additionalProps)
                        THEN SchemaBuilder(KeepLoop(h2, c.id, additionalProps, additionalProperties.v),
                                           c.id, d.cfg)
                        ELSE SchemaBuilder(h2, c.id, d.cfg)))))

\* OmitProperties whose filter keeps the listed names
OmitPropertiesKept(h, d, properties) ==
    IF ~IsSimpleObjectSchema(h, d.root) THEN Throw(h, "PreconditionError")
    ELSE PickProperties(h, d,
            SelectSeq(PropNames(h[d.root].properties.v), LAMBDA k : InSeq(k, properties)))

OmitProperties(h, d, properties) ==
    IF ~IsSimpleObjectSchema(h, d.root) THEN Throw(h, "PreconditionError")
    ELSE PickProperties(h, d,
            SelectSeq(PropNames(h[d.root].properties.v), LAMBDA k : ~InSeq(k, properties)))

\* propertyNames: [k |-> "undefined"] when omitted (every declared property)
NamesOrAll(h, so, propertyNames) ==
    IF propertyNames.k = "undefined" THEN PropNames(h[so].properties.v) ELSE propertyNames.v

\* properties[name] = {oneOf: [first, second]}
WrapOneOf(h, so, name, first, second) ==
    SetProperty(h \o <<[EmptyNode EXCEPT !.oneOf = F("array", <<first, second>>)]>>, so, name, Len(h) + 1)

RECURSIVE TransformLoop(_, _, _, _)
TransformLoop(h, so, b, names) ==
    IF Len(names) = 0 THEN h
    ELSE Let(CloneJSON(h, b.root), LAMBDA cb :
            TransformLoop(
                WrapOneOf(cb.h, so, Head(names), PropGet(h[so].properties.v, Head(names)), cb.id),
                so, b, Tail(names)))

TransformProperties(h, d, b, propertyNames) ==
    IF ~IsSimpleObjectSchema(h, d.root) THEN Throw(h, "PreconditionError")
    ELSE Let(CloneJSON(h, d.root), LAMBDA c :
         Let(EnsureProperties(c.h, c.id), LAMBDA h1 :
            SchemaBuilder(TransformLoop(h1, c.id, b, NamesOrAll(h1, c.id, propertyNames)),
                          c.id, d.cfg)))

\* properties[name] = {oneOf: [propertySchema, {type: "array", items: CloneJSON(propertySchema)}]}
WrapArrayOf(h, so, name, propertySchema) ==
    Let(CloneJSON(h, propertySchema), LAMBDA ci :
        WrapOneOf(ci.h \o <<[Scalar("array") EXCEPT !.items = F("schema", <<ci.id>>)]>>,
                  so, name, propertySchema, Len(ci.h) + 1))

RECURSIVE ToArrayLoop(_, _, _)
ToArrayLoop(h, so, names) ==
    IF Len(names) = 0 THEN [h |-> h, err |-> "none"]
    ELSE Let(PropGet(h[so].properties.v, Head(names)), LAMBDA propertySchema :
            IF propertySchema = 0 THEN [h |-> h, err |-> "TypeError"]
            ELSE IF h[propertySchema].type = F("scalar", <<"array">>)
            THEN ToArrayLoop(h, so, Tail(names))
            ELSE ToArrayLoop(WrapArrayOf(h, so, Head(names), propertySchema), so, Tail(names)))

TransformPropertiesToArray(h, d, propertyNames) ==
    IF ~IsSimpleObjectSchema(h, d.root) THEN Throw(h, "PreconditionError")
    ELSE Let(CloneJSON(h, d.root), LAMBDA c :
         Let(EnsureProperties(c.h, c.id), LAMBDA h1 :
         Let(ToArrayLoop(h1, c.id, NamesOrAll(h1, c.id, propertyNames)), LAMBDA r :
            IF r.err # "none" THEN Throw(r.h, r.err) ELSE SchemaBuilder(r.h, c.id, d.cfg))))

\* CloneJSON(itemsSchema) for the `items` keyword of an array property
ItemsClone(h, items) ==
    IF items.k = "array" /\ Len(items.v) # 1 THEN CloneInto(h, "oneOf", items.v)
    ELSE IF Has(items) THEN CloneJSON(h, items.v[1])
    ELSE [h |-> h, id |-> 0]

RECURSIVE UnwrapLoop(_, _, _)
UnwrapLoop(h, so, names) ==
    IF Len(names) = 0 THEN [h |-> h, err |-> "none"]
    ELSE Let(PropGet(h[so].properties.v, Head(names)), LAMBDA propertySchema :
            IF propertySchema = 0 THEN [h |-> h, err |-> "TypeError"]
            ELSE IF h[propertySchema].type # F("scalar", <<"array">>)
            THEN UnwrapLoop(h, so, Tail(names))
            ELSE Let(ItemsClone(h, h[propertySchema].items), LAMBDA ci :
                    UnwrapLoop(WrapOneOf(ci.h, so, Head(names), ci.id, propertySchema),
                               so, Tail(names))))

UnwrapArrayProperties(h, d, propertyNames) ==
    IF ~IsSimpleObjectSchema(h, d.root) THEN Throw(h, "PreconditionError")
    ELSE Let(CloneJSON(h, d.root), LAMBDA c :
         Let(EnsureProperties(c.h, c.id), LAMBDA h1 :
         Let(UnwrapLoop(h1, c.id, NamesOrAll(h1, c.id, propertyNames)), LAMBDA r :
            IF r.err # "none" THEN Throw(r.h, r.err) ELSE SchemaBuilder(r.h, c.id, d.cfg))))

ReqHas(n, key) == Has(n.required) /\ InSeq(key, n.required.v)

\* AddMissing without the push on `required`
AddMissingOptional(h, s1, s2, p) == SetProperty(h, s1, p.name, p.c)

\* one iteration of the loop over schemaObject2.properties, for a key missing in schemaObject1
AddMissing(h, s1, s2, p) ==
    Let(SetProperty(h, s1, p.name, p.c), LAMBDA h1 :
        IF ReqHas(h[s2], p.name) THEN PushRequired(h1, s1, p.name) ELSE h1)

\* properties[name] = {allOf: [properties[name], c]} (anyOf for Merge) on schemaObject1
WrapBoth(h, s1, keyword, name, c) ==
    SetProperty(h \o <<IF keyword = "allOf"
                       THEN [EmptyNode EXCEPT !.allOf = F("array", <<PropGet(h[s1].properties.v, name), c>>)]
                       ELSE [EmptyNode EXCEPT !.anyOf = F("array", <<PropGet(h[s1].properties.v, name), c>>)]>>,
                s1, name, Len(h) + 1)

\* TwoClones with schemaObject2 = schema.schemaObject
TwoClonesArgumentShared(h, d, schema) ==
    Let(CloneJSON(h, d.root), LAMBDA c1 : [h |-> c1.h, s1 |-> c1.id, s2 |-> schema.root])

\* schemaObject1 and schemaObject2, the two clones the three merges start from
TwoClones(h, d, schema) ==
    Let(CloneJSON(h, d.root), LAMBDA c1 :
    Let(CloneJSON(c1.h, schema.root), LAMBDA c2 :
        [h |-> c2.h, s1 |-> c1.id, s2 |-> c2.id]))

RECURSIVE IntersectLoop(_, _, _, _)
IntersectLoop(h, s1, s2, i) ==
    IF i > Len(h[s2].properties.v) THEN h
    ELSE Let(h[s2].properties.v[i], LAMBDA p :
            IF ~PropIn(h[s1].properties.v, p.name)
            THEN IntersectLoop(AddMissing(h, s1, s2, p), s1, s2, i + 1)
            ELSE Let(WrapBoth(h, s1, "allOf", p.name, p.c), LAMBDA h2 :
                    IntersectLoop(
                        IF ReqHas(h2[s2], p.name) /\ ~ReqHas(h2[s1], p.name)
                        THEN PushRequired(h2, s1, p.name)
                        ELSE h2,
                        s1, s2, i + 1)))

IntersectProperties(h, d, schema) ==
    IF ~IsSimpleObjectSchema(h, d.root) THEN Throw(h, "PreconditionError")
    ELSE Let(TwoClones(h, d, schema), LAMBDA c :
            IF Has(c.h[c.s2].properties)
            THEN SchemaBuilder(IntersectLoop(EnsureProperties(c.h, c.s1), c.s1, c.s2, 1), c.s1, d.cfg)
            ELSE SchemaBuilder(c.h, c.s1, d.cfg))

RECURSIVE MergeLoop(_, _, _, _)
MergeLoop(h, s1, s2, i) ==
    IF i > Len(h[s2].properties.v) THEN h
    ELSE Let(h[s2].properties.v[i], LAMBDA p :
            IF ~PropIn(h[s1].properties.v, p.name)
            THEN MergeLoop(AddMissing(h, s1, s2, p), s1, s2, i + 1)
            ELSE Let(WrapBoth(h, s1, "anyOf", p.name, p.c), LAMBDA h2 :
                    MergeLoop(
                        IF ReqHas(h2[s1], p.name) /\ ~ReqHas(h2[s2], p.name)
                        THEN [h2 EXCEPT ![s1].required.v = Without(h2[s1].required.v, p.name)]
                        ELSE h2,
                        s1, s2, i + 1)))

MergeProperties(h, d, schema) ==
    IF ~IsSimpleObjectSchema(h, d.root) THEN Throw(h, "PreconditionError")
    ELSE Let(TwoClones(h, d, schema), LAMBDA c :
            IF Has(c.h[c.s2].properties)
            THEN SchemaBuilder(MergeLoop(EnsureProperties(c.h, c.s1), c.s1, c.s2, 1), c.s1, d.cfg)
            ELSE SchemaBuilder(c.h, c.s1, d.cfg))

\* OverwriteLoop that stops after the first property of schemaObject2
OverwriteLoopFirst(h, s1, s2, i) ==
    IF Len(h[s2].properties.v) = 0 THEN h ELSE AddMissing(h, s1, s2, h[s2].properties.v[1])

RECURSIVE OverwriteLoop(_, _, _, _)
OverwriteLoop(h, s1, s2, i) ==
    IF i > Len(h[s2].properties.v) THEN h
    ELSE Let(h[s2].properties.v[i], LAMBDA p :
            IF ~PropIn(h[s1].properties.v, p.name)
            THEN OverwriteLoop(AddMissing(h, s1, s2, p), s1, s2, i + 1)
            ELSE Let(FilterRequired(SetProperty(h, s1, p.name, p.c), s1, p.name), LAMBDA h2 :
                    OverwriteLoop(
                        IF ReqHas(h2[s2], p.name) THEN PushRequired(h2, s1, p.name) ELSE h2,
                        s1, s2, i + 1)))

OverwriteProperties(h, d, schema) ==
    IF ~IsSimpleObjectSchema(h, d.root) THEN Throw(h, "PreconditionError")
    ELSE Let(TwoClones(h, d, schema), LAMBDA c :
            IF Has(c.h[c.s2].properties)
            THEN SchemaBuilder(OverwriteLoop(EnsureProperties(c.h, c.s1), c.s1, c.s2, 1), c.s1, d.cfg)
            ELSE SchemaBuilder(c.h, c.s1, d.cfg))

\* {...CloneJSON(this.schemaObject), ...schema} with schema = {title}
SetSchemaAttributes(h, d, title) ==
    Let(CloneJSON(h, d.root), LAMBDA c :
        SchemaBuilder([c.h EXCEPT ![c.id].title = F("string", <<title>>)], c.id, d.cfg))

ConfigureValidation(h, d, validationConfig) ==
    Let(CloneJSON(h, d.root), LAMBDA c : SchemaBuilder(c.h, c.id, validationConfig))

\* static FromJsonSchema / the constructor on a literal held by the caller
FromJsonSchema(h, schema, validationConfig) ==
    Let(Alloc(h, schema), LAMBDA a : SchemaBuilder(a.h, a.id, validationConfig))

\* static EmptySchema(schema = {}, nullable)
EmptySchema(h, nullable) ==
    FromJsonSchema(h,
        [EmptyNode EXCEPT
            !.type = IF nullable THEN F("array", <<"object", "null">>) ELSE F("scalar", <<"object">>),
            !.additionalProperties = F("false", <<>>)],
        "undefined")

(***************************************************************************)
(* The caller: it holds Documents (docs) and calls the API.  last records  *)
(* the latest call: the operation, the receiver and argument Documents,    *)
(* the returned Document (0 when the call threw), the error, the literal   *)
(* handed to FromJsonSchema and the list of names handed to the operation. *)
(***************************************************************************)
Names == {"a", "b", "c"}

\* lists of distinct property names, at most MaxNames long
NameLists ==
    {l \in UNION {[1..n -> Names] : n \in 0..MaxNames} :
        \A i \in 1..Len(l), j \in 1..Len(l) : i # j => l[i] # l[j]}

\* an optional argument that was left out
Omitted == [k |-> "undefined", v |-> <<>>]

OptionalNameLists == {Omitted} \cup {[k |-> "array", v |-> l] : l \in NameLists}

Configs == {"undefined", "coerce"}

ReceiverLits == {LitAB, LitBC, LitA, LitStale, LitOptional, LitAddl, LitOpen, LitCombi, LitArray}

ArgumentLits == {LitAB, LitBC}

AllLits == ReceiverLits \cup {LitRefProp, LitRefDef}

Doc(r, by) == [root |-> r.id, cfg |-> r.cfg, by |-> by]

Init ==
    \E s1 \in ReceiverLits, s2 \in ArgumentLits :
        LET r1 == FromJsonSchema(<<>>, s1, "undefined")
            r2 == FromJsonSchema(r1.h, s2, "undefined")
        IN  /\ heap = r2.h
            /\ docs = <<Doc(r1, "FromJsonSchema"), Doc(r2, "FromJsonSchema")>>
            /\ last = [op |-> "none", recv |-> 0, arg |-> 0, res |-> 0, err |-> "none", schema |-> Undefined,
                       names |-> <<>>, keep |-> Omitted]
            /\ calls = 0

\* Documents whose schemaObject is an object
Live == {i \in 1..Len(docs) : docs[i].root # 0}

\* the caller's step for a call of op that yields the result r: a call that throws
\* leaves no new Document, and the objects it allocated are garbage
CallWith(op, recv, arg, schema, names, keep, r) ==
    /\ calls < MaxCalls
    /\ calls' = calls + 1
    /\ IF r.err = "none"
       THEN /\ heap' = r.h
            /\ docs' = Append(docs, Doc(r, op))
            /\ last' = [op |-> op, recv |-> recv, arg |-> arg, res |-> Len(docs) + 1,
                        err |-> "none", schema |-> schema, names |-> names, keep |-> keep]
       ELSE /\ heap' = SubSeq(r.h, 1, Len(heap))
            /\ docs' = docs
            /\ last' = [op |-> op, recv |-> recv, arg |-> arg, res |-> 0,
                        err |-> r.err, schema |-> schema, names |-> names, keep |-> keep]

CallOn(op, recv, arg, schema, names, r) == CallWith(op, recv, arg, schema, names, Omitted, r)

Call(op, recv, arg, r) == CallOn(op, recv, arg, Undefined, <<>>, r)

\* a call whose first argument is the list of names l
CallNames(op, recv, l, r) == CallOn(op, recv, 0, Undefined, l, r)

DoFromJsonSchema ==
    \E s \in AllLits, cfg \in Configs :
        CallOn("FromJsonSchema", 0, 0, s, <<>>, FromJsonSchema(heap, s, cfg))

DoEmptySchema ==
    \E nullable \in BOOLEAN : Call("EmptySchema", 0, 0, EmptySchema(heap, nullable))

DoSetOptionalProperties ==
    \E i \in Live, l \in NameLists :
        CallNames("SetOptionalProperties", i, l, SetOptionalProperties(heap, docs[i], l))

DoSetRequiredProperties ==
    \E i \in Live, l \in NameLists :
        CallNames("SetRequiredProperties", i, l, SetRequiredProperties(heap, docs[i], l))

DoToOptionals == \E i \in Live : Call("ToOptionals", i, 0, ToOptionals(heap, docs[i]))

DoToDeepOptionals == \E i \in Live : Call("ToDeepOptionals", i, 0, ToDeepOptionals(heap, docs[i]))

DoToNullable == \E i \in Live : Call("ToNullable", i, 0, ToNullable(heap, docs[i]))

DoAddProperty ==
    \E i \in Live, j \in Live, n \in Names, req \in {"true", "false", "undefined"} :
        Call("AddProperty", i, j, AddProperty(heap, docs[i], n, docs[j], req))

\* {n: b} and {n: [b, undefined]} and {n: [b, b]}
Definitions(n, b) ==
    { <<[name |-> n, array |-> FALSE, alts |-> <<b.root>>, hasUndefined |-> FALSE]>>,
      <<[name |-> n, array |-> TRUE, alts |-> <<b.root>>, hasUndefined |-> TRUE]>>,
      <<[name |-> n, array |-> TRUE, alts |-> <<b.root, b.root>>, hasUndefined |-> FALSE]>> }

DoAddProperties ==
    \E i \in Live, j \in Live, n \in Names : \E def \in Definitions(n, docs[j]) :
        Call("AddProperties", i, j, AddProperties(heap, docs[i], def))

DoReplaceProperty ==
    \E i \in Live, j \in Live, n \in Names, res \in {"identity", "builder"}, req \in {"false", "undefined"} :
        Call("ReplaceProperty", i, IF res = "builder" THEN j ELSE 0,
             ReplaceProperty(heap, docs[i], n, res, docs[j], req))

DoAddOrReplaceProperty ==
    \E i \in Live, j \in Live, n \in Names, req \in {"false", "undefined"} :
        Call("AddOrReplaceProperty", i, j, AddOrReplaceProperty(heap, docs[i], n, docs[j], req))

DoAddAdditionalProperties ==
    \E i \in Live, j \in Live, withSchema \in BOOLEAN :
        Call("AddAdditionalProperties", i, IF withSchema THEN j ELSE 0,
             AddAdditionalProperties(heap, docs[i], withSchema, docs[j]))

DoRenameProperty ==
    \E i \in Live, n1 \in Names, n2 \in Names :
        CallOn("RenameProperty", i, 0, Undefined, <<n1, n2>>, RenameProperty(heap, docs[i], n1, n2))

DoPickProperties ==
    \E i \in Live, l \in NameLists : CallNames("PickProperties", i, l, PickProperties(heap, docs[i], l))

DoPickAdditionalProperties ==
    \E i \in Live, l \in NameLists, keep \in OptionalNameLists :
        CallWith("PickAdditionalProperties", i, 0, Undefined, l, keep,
                 PickAdditionalProperties(heap, docs[i], l, keep))

DoOmitProperties ==
    \E i \in Live, l \in NameLists : CallNames("OmitProperties", i, l, OmitProperties(heap, docs[i], l))

DoTransformProperties ==
    \E i \in Live, j \in Live, l \in OptionalNameLists :
        Call("TransformProperties", i, j, TransformProperties(heap, docs[i], docs[j], l))

DoTransformPropertiesToArray ==
    \E i \in Live, l \in OptionalNameLists :
        Call("TransformPropertiesToArray", i, 0, TransformPropertiesToArray(heap, docs[i], l))

DoUnwrapArrayProperties ==
    \E i \in Live, l \in OptionalNameLists :
        Call("UnwrapArrayProperties", i, 0, UnwrapArrayProperties(heap, docs[i], l))

DoIntersectProperties ==
    \E i \in Live, j \in Live : Call("IntersectProperties", i, j, IntersectProperties(heap, docs[i], docs[j]))

DoMergeProperties ==
    \E i \in Live, j \in Live : Call("MergeProperties", i, j, MergeProperties(heap, docs[i], docs[j]))

DoOverwriteProperties ==
    \E i \in Live, j \in Live : Call("OverwriteProperties", i, j, OverwriteProperties(heap, docs[i], docs[j]))

DoSetSchemaAttributes ==
    \E i \in Live : Call("SetSchemaAttributes", i, 0, SetSchemaAttributes(heap, docs[i], "t"))

DoConfigureValidation ==
    \E i \in Live, cfg \in Configs : Call("ConfigureValidation", i, 0, ConfigureValidation(heap, docs[i], cfg))

DoGetSubschema ==
    \E i \in Live, n \in Names : Call("GetSubschema", i, 0, GetSubschema(heap, docs[i], n))

DoGetItemsSubschema == \E i \in Live : Call("GetItemsSubschema", i, 0, GetItemsSubschema(heap, docs[i]))

\* the caller writes into the object it got from the Schema getter of a Document
MutateSchema ==
    \E i \in Live : \E n \in Reach(heap, docs[i].root) :
        /\ calls < MaxCalls
        /\ calls' = calls + 1
        /\ heap' = [heap EXCEPT ![n].title = F("string", <<"mutated">>)]
        /\ docs' = docs
        /\ last' = [op |-> "MutateSchema", recv |-> i, arg |-> n, res |-> 0, err |-> "none",
                    schema |-> Undefined, names |-> <<>>, keep |-> Omitted]

Next ==
    \/ DoFromJsonSchema
    \/ DoEmptySchema
    \/ DoSetOptionalProperties
    \/ DoSetRequiredProperties
    \/ DoToOptionals
    \/ DoToDeepOptionals
    \/ DoToNullable
    \/ DoAddProperty
    \/ DoAddProperties
    \/ DoReplaceProperty
    \/ DoAddOrReplaceProperty
    \/ DoAddAdditionalProperties
    \/ DoRenameProperty
    \/ DoPickProperties
    \/ DoPickAdditionalProperties
    \/ DoOmitProperties
    \/ DoTransformProperties
    \/ DoTransformPropertiesToArray
    \/ DoUnwrapArrayProperties
    \/ DoIntersectProperties
    \/ DoMergeProperties
    \/ DoOverwriteProperties
    \/ DoSetSchemaAttributes
    \/ DoConfigureValidation
    \/ DoGetSubschema
    \/ DoGetItemsSubschema
    \/ MutateSchema

Spec == Init /\ [][Next]_vars

(***************************************************************************)
(* Default.ts: the defaults resolver.  It works on plain JSON values: a    *)
(* value is [k, v] with k its kind and v its content, an object being the  *)
(* sequence of its [key, val] entries in insertion order.                  *)
(***************************************************************************)
JUndefined == [k |-> "undefined", v |-> <<>>]

JNull == [k |-> "null", v |-> <<>>]

JNumber(n) == [k |-> "number", v |-> <<n>>]

JString(s) == [k |-> "string", v |-> <<s>>]

JArray(items) == [k |-> "array", v |-> items]

JObject(entries) == [k |-> "object", v |-> entries]

\* what JSON.parse(undefined) does: it throws a SyntaxError
JSyntaxError == [k |-> "SyntaxError", v |-> <<>>]

KV(key, val) == [key |-> key, val |-> val]

\* `key in o`
JHas(o, key) == o.k = "object" /\ \E i \in 1..Len(o.v) : o.v[i].key = key

\* o[key]
JGet(o, key) ==
    IF JHas(o, key) THEN o.v[CHOOSE i \in 1..Len(o.v) : o.v[i].key = key].val ELSE JUndefined

\* o[key] = val
JSet(o, key, val) ==
    IF JHas(o, key)
    THEN JObject(Tup([i \in 1..Len(o.v) |-> IF o.v[i].key = key THEN KV(key, val) ELSE o.v[i]]))
    ELSE JObject(Append(o.v, KV(key, val)))

\* typeof x !== 'undefined'
Defined(x) == x.k # "undefined"

\* !x
Falsy(x) ==
    \/ x.k \in {"undefined", "null"}
    \/ x.k = "number" /\ x.v[1] = 0
    \/ x.k = "string" /\ x.v[1] = ""

\* x === s for a string s
IsString(x, s) == x.k = "string" /\ x.v[1] = s

isObject(item) == item.k = "object"

\* JSON.parse(JSON.stringify(source)): an object loses its undefined entries,
\* an undefined array element becomes null
RECURSIVE cloneJSON(_)
cloneJSON(source) ==
    CASE source.k = "object" ->
            Let(SelectSeq(source.v, LAMBDA e : Defined(e.val)), LAMBDA kept :
                JObject(Tup([i \in 1..Len(kept) |-> KV(kept[i].key, cloneJSON(kept[i].val))])))
      [] source.k = "array" ->
            JArray(Tup([i \in 1..Len(source.v) |->
                        IF Defined(source.v[i]) THEN cloneJSON(source.v[i]) ELSE JNull]))
      [] source.k = "undefined" -> JSyntaxError
      [] OTHER -> source

\* the loop of merge over the own keys of source, from entry i on
RECURSIVE mergeKeys(_, _, _)
mergeKeys(target, source, i) ==
    IF i > Len(source.v) THEN target
    ELSE Let(source.v[i], LAMBDA e :
         Let(JGet(target, e.key), LAMBDA mine :
            mergeKeys(JSet(target, e.key,
                           IF isObject(mine) /\ isObject(e.val)
                           THEN mergeKeys(cloneJSON(mine), e.val, 1)
                           ELSE e.val),
                      source, i + 1)))

\* a source that is no object has no own enumerable keys here (number, null)
merge(target, source) ==
    IF isObject(source) THEN mergeKeys(cloneJSON(target), source, 1) ELSE cloneJSON(target)

\* path.replace(/^#\/definitions\//, '').split('/') for the paths in use
RefPath(path) ==
    CASE path = "#/definitions/Base" -> <<"Base">>
      [] path = "#/definitions/Missing" -> <<"Missing">>
      [] path = "#/definitions/A" -> <<"A">>
      [] path = "#/definitions/B" -> <<"B">>
      [] path = "#/definitions/Base/properties/y" -> <<"Base", "properties", "y">>
      [] OTHER -> <<path>>

\* find that answers undefined, not {}, for a missing segment
RECURSIVE findUndefined(_, _)
findUndefined(path, root) ==
    IF Falsy(JGet(root, Head(path))) THEN JUndefined
    ELSE IF Len(Tail(path)) = 0 THEN JGet(root, Head(path))
    ELSE findUndefined(Tail(path), JGet(root, Head(path)))

RECURSIVE find(_, _)
find(path, root) ==
    IF Falsy(JGet(root, Head(path))) THEN JObject(<<>>)
    ELSE IF Len(Tail(path)) = 0 THEN JGet(root, Head(path))
    ELSE find(Tail(path), JGet(root, Head(path)))

getLocalRef(path, definitions) ==
    Let(find(RefPath(path), definitions), LAMBDA result :
        IF ~isObject(result) THEN result ELSE cloneJSON(result))

\* the item of an allOf list after the resolution of its $ref
allOfItem(item, definitions) ==
    IF Defined(JGet(item, "$ref")) THEN getLocalRef(JGet(item, "$ref").v[1], definitions) ELSE item

RECURSIVE mergeAllOfFrom(_, _, _, _)
mergeAllOfFrom(allOfList, definitions, index, result) ==
    IF index > Len(allOfList) THEN result
    ELSE mergeAllOfFrom(allOfList, definitions, index + 1,
                        merge(result, allOfItem(allOfList[index], definitions)))

\* mergeAllOf that resolves every $ref against an empty definitions object
mergeAllOfUnresolved(allOfList, definitions) ==
    mergeAllOfFrom(allOfList, JObject(<<>>), 1, JObject(<<>>))

mergeAllOf(allOfList, definitions) == mergeAllOfFrom(allOfList, definitions, 1, JObject(<<>>))

\* the loop that pops undefined values off the tail; i counts from 0 as in the source
RECURSIVE trimTail(_, _, _)
trimTail(values, i, ct) ==
    IF i < 0 THEN values
    ELSE IF Defined(values[i + 1]) THEN values
    ELSE trimTail(IF i + 1 > ct THEN SubSeq(values, 1, Len(values) - 1) ELSE values, i - 1, ct)

\* a minimum item count that is always 0
minItemsIgnored(schema) == 0

\* schema.minItems || 0
minItemsOf(schema) == IF Falsy(JGet(schema, "minItems")) THEN 0 ELSE JGet(schema, "minItems").v[1]

Max(a, b) == IF a > b THEN a ELSE b

\* what reading a key of undefined or null does: it throws a TypeError
JTypeError == [k |-> "TypeError", v |-> <<>>]

\* the if-else chain of defaults with the $ref test ahead of the allOf test
branchRefFirst(schema) ==
    IF Defined(JGet(schema, "default")) THEN "default"
    ELSE IF Defined(JGet(schema, "$ref")) THEN "$ref"
    ELSE IF Defined(JGet(schema, "allOf")) THEN "allOf"
    ELSE IF IsString(JGet(schema, "type"), "object") THEN "object"
    ELSE IF IsString(JGet(schema, "type"), "array") THEN "array"
    ELSE "none"

\* the if-else chain of defaults: the first test that succeeds picks the case
branch(schema) ==
    IF Defined(JGet(schema, "default")) THEN "default"
    ELSE IF Defined(JGet(schema, "allOf")) THEN "allOf"
    ELSE IF Defined(JGet(schema, "$ref")) THEN "$ref"
    ELSE IF IsString(JGet(schema, "type"), "object") THEN "object"
    ELSE IF IsString(JGet(schema, "type"), "array") THEN "array"
    ELSE "none"

\* property defaults of which none is deleted
deleteNone(entries) == entries

\* `delete schema.properties[key]` for every key whose default is undefined
deleteUndefined(entries) == SelectSeq(entries, LAMBDA e : Defined(e.val))

RECURSIVE defaults(_, _)
defaults(schema, definitions) ==
    IF schema.k \in {"undefined", "null"} THEN JTypeError
    ELSE CASE branch(schema) = "default" -> JGet(schema, "default")
      [] branch(schema) = "allOf" ->
            defaults(mergeAllOf(JGet(schema, "allOf").v, definitions), definitions)
      [] branch(schema) = "$ref" ->
            defaults(getLocalRef(JGet(schema, "$ref").v[1], definitions), definitions)
      [] branch(schema) = "object" ->
            IF Falsy(JGet(schema, "properties")) THEN JObject(<<>>)
            ELSE Let(JGet(schema, "properties").v, LAMBDA ps :
                    JObject(deleteUndefined(
                        Tup([i \in 1..Len(ps) |-> KV(ps[i].key, defaults(ps[i].val, definitions))]))))
      [] branch(schema) = "array" ->
            IF Falsy(JGet(schema, "items")) THEN JArray(<<>>)
            ELSE IF JGet(schema, "items").k = "array"
            THEN Let(JGet(schema, "items").v, LAMBDA items :
                    JArray(trimTail(Tup([i \in 1..Len(items) |-> defaults(items[i], definitions)]),
                                    Len(items) - 1, minItemsOf(schema))))
            ELSE Let(defaults(JGet(schema, "items"), definitions), LAMBDA value :
                    IF ~Defined(value) THEN JArray(<<>>)
                    ELSE JArray(Tup([i \in 1..Max(1, minItemsOf(schema)) |-> cloneJSON(value)])))
      [] OTHER -> JUndefined

\* the definitions DefaultObject resolves against
effectiveDefinitions(schema, definitions) ==
    IF ~Defined(definitions)
    THEN IF Falsy(JGet(schema, "definitions")) THEN JObject(<<>>) ELSE JGet(schema, "definitions")
    ELSE IF isObject(JGet(schema, "definitions")) THEN merge(definitions, JGet(schema, "definitions"))
    ELSE definitions

DefaultObject(schema, definitions) ==
    defaults(cloneJSON(schema), effectiveDefinitions(schema, definitions))

(***************************************************************************)
(* Default.ts with object identity.  The objects and arrays live in a heap *)
(* of cells: an object cell is [k |-> "object", v |-> <<[key, val], ...>>], *)
(* an array cell [k |-> "array", v |-> <<val, ...>>], and a val is a        *)
(* primitive JSON value or a reference [k |-> "ref", v |-> <<id>>].  Every  *)
(* function yields [h, x]: the heap after the call and the val returned.   *)
(***************************************************************************)
Ref(id) == [k |-> "ref", v |-> <<id>>]

IsRef(x) == x.k = "ref"

At(h, x) == h[x.v[1]]

Yield(h, x) == [h |-> h, x |-> x]

\* a new cell
New(h, cell) == Yield(Append(h, cell), Ref(Len(h) + 1))

\* the vals of the members of a cell or of a JSON value
Members(c) == IF c.k = "object" THEN Tup([i \in 1..Len(c.v) |-> c.v[i].val]) ELSE c.v

\* the cell or JSON value c with its members replaced by xs
WithMembers(c, xs) ==
    IF c.k = "object"
    THEN [k |-> "object", v |-> Tup([i \in 1..Len(xs) |-> KV(c.v[i].key, xs[i])])]
    ELSE [k |-> "array", v |-> xs]

\* the number of objects and arrays in the JSON value t
RECURSIVE Weight(_)
Weight(t) ==
    IF t.k \notin {"object", "array"} THEN 0
    ELSE 1 + SumSeq(Tup([i \in 1..Len(Members(t)) |-> Weight(Members(t)[i])]))

\* the cells of the JSON value t, its root at base + 1, every object and array of
\* it a cell of its own
RECURSIVE Graph(_, _)
Graph(t, base) ==
    IF t.k \notin {"object", "array"} THEN <<>>
    ELSE Let(Members(t), LAMBDA ms :
         Let(Tup([i \in 1..Len(ms) |-> base + 1 + SumSeq(Tup([j \in 1..(i - 1) |-> Weight(ms[j])]))]),
             LAMBDA off :
                <<WithMembers(t, Tup([i \in 1..Len(ms) |->
                        IF ms[i].k \in {"object", "array"} THEN Ref(off[i] + 1) ELSE ms[i]]))>>
                    \o Concat(Tup([i \in 1..Len(ms) |-> Graph(ms[i], off[i])]))))

\* the object graph of the JSON value t in new cells
Store(h, t) ==
    IF t.k \notin {"object", "array"} THEN Yield(h, t)
    ELSE Yield(h \o Graph(t, Len(h)), Ref(Len(h) + 1))

\* the JSON value a val stands for
RECURSIVE Load(_, _)
Load(h, x) ==
    IF ~IsRef(x) THEN x
    ELSE Let(Members(At(h, x)), LAMBDA xs :
            WithMembers(At(h, x), Tup([i \in 1..Len(xs) |-> Load(h, xs[i])])))

\* the cells reachable from a val
RECURSIVE Cells(_, _)
Cells(h, x) ==
    IF ~IsRef(x) THEN {}
    ELSE {x.v[1]} \cup UNION {Cells(h, Members(At(h, x))[i]) : i \in 1..Len(Members(At(h, x)))}

\* x[key], undefined when x is no object or has no such key
Get(h, x, key) == IF IsRef(x) /\ At(h, x).k = "object" THEN JGet(At(h, x), key) ELSE JUndefined

\* x[key] = val and `delete x[key]` on the object x
Set(h, x, key, val) == [h EXCEPT ![x.v[1]] = JSet(@, key, val)]

Delete(h, x, key) == [h EXCEPT ![x.v[1]] = JObject(SelectSeq(@.v, LAMBDA e : e.key # key))]

isObjectAt(h, x) == IsRef(x) /\ At(h, x).k = "object"

\* !x
FalsyAt(x) == ~IsRef(x) /\ Falsy(x)

\* JSON.parse(JSON.stringify(source)): a new graph for the value source stands for
cloneJSONAt(h, source) == Store(h, cloneJSON(Load(h, source)))

\* the loop of merge over the own keys of source, from entry i on; target is new
RECURSIVE mergeAt(_, _, _)
RECURSIVE mergeKeysAt(_, _, _, _)
mergeKeysAt(h, target, source, i) ==
    IF i > Len(At(h, source).v) THEN Yield(h, target)
    ELSE Let(At(h, source).v[i], LAMBDA e :
            IF isObjectAt(h, Get(h, target, e.key)) /\ isObjectAt(h, e.val)
            THEN Let(mergeAt(h, Get(h, target, e.key), e.val), LAMBDA m :
                    mergeKeysAt(Set(m.h, target, e.key, m.x), target, source, i + 1))
            ELSE mergeKeysAt(Set(h, target, e.key, e.val), target, source, i + 1))

mergeAt(h, target, source) ==
    Let(cloneJSONAt(h, target), LAMBDA t :
        IF isObjectAt(t.h, source) THEN mergeKeysAt(t.h, t.x, source, 1) ELSE t)

RECURSIVE findAt(_, _, _)
findAt(h, path, root) ==
    IF FalsyAt(Get(h, root, Head(path))) THEN New(h, JObject(<<>>))
    ELSE IF Len(Tail(path)) = 0 THEN Yield(h, Get(h, root, Head(path)))
    ELSE findAt(h, Tail(path), Get(h, root, Head(path)))

getLocalRefAt(h, path, definitions) ==
    Let(findAt(h, RefPath(path), definitions), LAMBDA result :
        IF ~isObjectAt(result.h, result.x) THEN result ELSE cloneJSONAt(result.h, result.x))

RECURSIVE mergeAllOfFromAt(_, _, _, _, _)
mergeAllOfFromAt(h, allOfList, definitions, index, result) ==
    IF index > Len(At(h, allOfList).v) THEN Yield(h, result)
    ELSE Let(At(h, allOfList).v[index], LAMBDA item :
         Let(IF Defined(Get(h, item, "$ref"))
             THEN getLocalRefAt(h, Get(h, item, "$ref").v[1], definitions)
             ELSE Yield(h, item),
             LAMBDA it :
         Let(mergeAt(it.h, result, it.x), LAMBDA m :
            mergeAllOfFromAt(m.h, allOfList, definitions, index + 1, m.x))))

mergeAllOfAt(h, allOfList, definitions) ==
    Let(New(h, JObject(<<>>)), LAMBDA result :
        mergeAllOfFromAt(result.h, allOfList, definitions, 1, result.x))

\* the loop `for (i = 0; i < Math.max(1, ct); i++) values.push(cloneJSON(value))`
RECURSIVE pushCopies(_, _, _, _)
pushCopies(h, values, value, n) ==
    IF n = 0 THEN Yield(h, values)
    ELSE Let(cloneJSONAt(h, value), LAMBDA c :
            pushCopies([c.h EXCEPT ![values.v[1]].v = Append(@, c.x)], values, value, n - 1))

\* schema.minItems || 0
minItemsAt(h, schema) ==
    IF FalsyAt(Get(h, schema, "minItems")) THEN 0 ELSE Get(h, schema, "minItems").v[1]

RECURSIVE defaultsAt(_, _, _)
\* the loop over the keys of schema.properties: a default replaces the property
\* schema, an undefined default deletes the key
RECURSIVE propertiesLoop(_, _, _, _)
propertiesLoop(h, properties, keys, definitions) ==
    IF Len(keys) = 0 THEN Yield(h, properties)
    ELSE Let(defaultsAt(h, Get(h, properties, Head(keys)), definitions), LAMBDA d :
            propertiesLoop(IF Defined(d.x) THEN Set(d.h, properties, Head(keys), d.x)
                           ELSE Delete(d.h, properties, Head(keys)),
                           properties, Tail(keys), definitions))

\* schema.items.map(item => defaults(item, definitions))
RECURSIVE itemsMap(_, _, _, _, _)
itemsMap(h, items, i, definitions, values) ==
    IF i > Len(At(h, items).v) THEN Yield(h, values)
    ELSE Let(defaultsAt(h, At(h, items).v[i], definitions), LAMBDA d :
            itemsMap(d.h, items, i + 1, definitions, Append(values, d.x)))

defaultsAt(h, schema, definitions) ==
    IF schema.k \in {"undefined", "null"} THEN Yield(h, JTypeError)
    ELSE IF Defined(Get(h, schema, "default")) THEN Yield(h, Get(h, schema, "default"))
    ELSE IF Defined(Get(h, schema, "allOf"))
    THEN Let(mergeAllOfAt(h, Get(h, schema, "allOf"), definitions), LAMBDA mergedItem :
            defaultsAt(mergedItem.h, mergedItem.x, definitions))
    ELSE IF Defined(Get(h, schema, "$ref"))
    THEN Let(getLocalRefAt(h, Get(h, schema, "$ref").v[1], definitions), LAMBDA reference :
            defaultsAt(reference.h, reference.x, definitions))
    ELSE IF IsString(Get(h, schema, "type"), "object")
    THEN IF FalsyAt(Get(h, schema, "properties")) THEN New(h, JObject(<<>>))
         ELSE Let(Get(h, schema, "properties"), LAMBDA properties :
                propertiesLoop(h, properties,
                               Tup([i \in 1..Len(At(h, properties).v) |-> At(h, properties).v[i].key]),
                               definitions))
    ELSE IF IsString(Get(h, schema, "type"), "array")
    THEN IF FalsyAt(Get(h, schema, "items")) THEN New(h, JArray(<<>>))
         ELSE IF IsRef(Get(h, schema, "items")) /\ At(h, Get(h, schema, "items")).k = "array"
         THEN Let(itemsMap(h, Get(h, schema, "items"), 1, definitions, <<>>), LAMBDA values :
                New(values.h,
                    JArray(trimTail(values.x, Len(values.x) - 1, minItemsAt(h, schema)))))
         ELSE Let(defaultsAt(h, Get(h, schema, "items"), definitions), LAMBDA value :
                IF ~Defined(value.x) THEN New(value.h, JArray(<<>>))
                ELSE Let(New(value.h, JArray(<<>>)), LAMBDA values :
                        pushCopies(values.h, values.x, value.x, Max(1, minItemsAt(h, schema)))))
    ELSE Yield(h, JUndefined)

\* DefaultObject that hands the caller's schema itself to defaults
DefaultObjectInPlace(h, schema, definitions) ==
    Let(IF ~Defined(definitions)
        THEN IF FalsyAt(Get(h, schema, "definitions")) THEN New(h, JObject(<<>>))
             ELSE Yield(h, Get(h, schema, "definitions"))
        ELSE IF isObjectAt(h, Get(h, schema, "definitions"))
        THEN mergeAt(h, definitions, Get(h, schema, "definitions"))
        ELSE Yield(h, definitions),
        LAMBDA defs : defaultsAt(defs.h, schema, defs.x))

DefaultObjectAt(h, schema, definitions) ==
    Let(IF ~Defined(definitions)
        THEN IF FalsyAt(Get(h, schema, "definitions")) THEN New(h, JObject(<<>>))
             ELSE Yield(h, Get(h, schema, "definitions"))
        ELSE IF isObjectAt(h, Get(h, schema, "definitions"))
        THEN mergeAt(h, definitions, Get(h, schema, "definitions"))
        ELSE Yield(h, definitions),
        LAMBDA defs :
            Let(cloneJSONAt(defs.h, schema), LAMBDA copy : defaultsAt(copy.h, copy.x, defs.x)))

(***************************************************************************)
(* The caller of DefaultObject: the schemas and definitions maps it hands  *)
(* over.  last records the call and the value it returned.                 *)
(***************************************************************************)
WithDefault(n) == JObject(<<KV("default", JNumber(n))>>)

TypeObject == KV("type", JString("object"))

\* the key `type: "object"` when typed
Typed(typed) == IF typed THEN <<TypeObject>> ELSE <<>>

\* {properties: {name: {default: n}}}, with type "object" when typed
OneProperty(name, n, typed) ==
    JObject(Typed(typed) \o <<KV("properties", JObject(<<KV(name, WithDefault(n))>>))>>)

RefTo(path) == JObject(<<KV("$ref", JString(path))>>)

\* the first and the second element of an allOf list
FirstElements ==
    {RefTo("#/definitions/Base"), RefTo("#/definitions/Missing"),
     OneProperty("y", 2, FALSE), OneProperty("y", 2, TRUE)}

SecondElements ==
    {OneProperty("x", 1, FALSE), OneProperty("x", 1, TRUE), OneProperty("y", 9, FALSE),
     JObject(<<KV("properties", JObject(<<KV("x", JObject(<<>>))>>))>>)}

\* the `definitions` keyword of a schema: none, or Base in one of three forms
OwnDefinitions ==
    {<<>>} \cup
    {<<KV("definitions", JObject(<<KV("Base", b)>>))>> :
        b \in {OneProperty("y", 2, FALSE), OneProperty("y", 2, TRUE), OneProperty("y", 5, FALSE)}}

AllOfSchemas ==
    {JObject(<<KV("allOf", JArray(<<e1, e2>>))>> \o own) :
        e1 \in FirstElements, e2 \in SecondElements, own \in OwnDefinitions}

RefSchemas ==
    {JObject(<<KV("$ref", JString(path))>> \o own) :
        path \in {"#/definitions/Base", "#/definitions/Base/properties/y"}, own \in OwnDefinitions}

\* {type: "object", properties: {p: {$ref}, q: {type: "array", items, minItems}}} and the like
ObjectSchemas ==
    {JObject(<<TypeObject,
               KV("properties", JObject(<<KV("p", RefTo("#/definitions/Base")), KV("q", q)>>))>> \o own) :
        q \in {WithDefault(4),
               JObject(<<KV("type", JString("string"))>>),
               JObject(<<KV("type", JString("array")), KV("items", WithDefault(0)), KV("minItems", JNumber(2))>>),
               JObject(<<KV("type", JString("array")),
                         KV("items", JArray(<<WithDefault(1), JObject(<<>>)>>)), KV("minItems", JNumber(1))>>)},
        own \in OwnDefinitions}

TypeString == JObject(<<KV("type", JString("string"))>>)

BaseDefinitions == KV("definitions", JObject(<<KV("Base", WithDefault(5))>>))

\* schemas on which several cases of defaults apply at once, or none
OrderSchemas ==
    {JObject(<<KV("default", d), KV("allOf", JArray(<<WithDefault(2)>>)), KV("$ref", JString("#/definitions/Base")),
               TypeObject, KV("properties", JObject(<<KV("x", WithDefault(1))>>)), BaseDefinitions>>) :
        d \in {JNumber(0), JNull, JString("x"), JObject(<<KV("x", JNumber(3))>>)}}
    \cup
    {JObject(<<KV("allOf", JArray(<<e>>)), KV("$ref", JString("#/definitions/Base"))>> \o t \o <<BaseDefinitions>>) :
        e \in {WithDefault(2), OneProperty("x", 1, TRUE), TypeString},
        t \in {<<>>, <<TypeObject, KV("properties", JObject(<<KV("x", WithDefault(1))>>))>>}}
    \cup
    {JObject(<<KV("$ref", JString("#/definitions/Base"))>> \o t \o <<BaseDefinitions>>) :
        t \in {<<TypeObject>>, <<TypeObject, KV("properties", JObject(<<KV("x", WithDefault(1))>>))>>,
               <<KV("type", JString("array")), KV("items", WithDefault(1))>>}}
    \cup
    {JObject(<<>>), TypeString, JObject(<<KV("type", JString("number")), KV("minItems", JNumber(1))>>),
     JObject(<<KV("properties", JObject(<<KV("x", WithDefault(1))>>))>>),
     JObject(<<KV("items", WithDefault(1))>>)}

\* the schemas a property of PropertySchemas has
PropertyKinds ==
    {JObject(<<KV("type", JString("string")), KV("default", JString("x"))>>),
     JObject(<<KV("type", JString("number"))>>),
     JObject(<<KV("default", JNull)>>),
     OneProperty("y", 2, TRUE),
     JObject(<<TypeObject, KV("properties", JObject(<<KV("y", TypeString)>>))>>),
     RefTo("#/definitions/Missing")}

\* {type: "object"} with no properties, and with properties a and b
PropertySchemas ==
    {JObject(<<TypeObject>>), JObject(<<TypeObject, KV("properties", JObject(<<>>))>>)}
    \cup
    {JObject(<<TypeObject, KV("properties", JObject(<<KV("a", a), KV("b", b)>>))>>) :
        a \in PropertyKinds, b \in PropertyKinds}

MinItemsKeys == {<<>>} \cup {<<KV("minItems", JNumber(n))>> : n \in {0, 1, 2, 3, 5}}

\* the per-position schemas of a tuple: with a default, and without
ItemKinds == {WithDefault(1), TypeString, JObject(<<KV("default", JNull)>>)}

\* {type: "array", items: [s1, s2, s3], minItems}, and shorter tuples
TupleSchemas ==
    {JObject(<<KV("type", JString("array")), KV("items", JArray(items))>> \o m) :
        items \in {<<>>} \cup {<<s1>> : s1 \in ItemKinds}
                  \cup {<<s1, s2, s3>> : s1 \in ItemKinds, s2 \in ItemKinds, s3 \in ItemKinds},
        m \in MinItemsKeys}

DefaultSchemas == AllOfSchemas \cup RefSchemas \cup ObjectSchemas

\* the definitions argument: omitted, or a map
DefinitionMaps ==
    {JUndefined, JObject(<<>>)} \cup
    {JObject(<<KV("Base", b)>>) : b \in {OneProperty("y", 3, FALSE), OneProperty("y", 3, TRUE), WithDefault(7)}}

InitDefault ==
    /\ heap = <<>>
    /\ docs = <<>>
    /\ calls = 0
    /\ last = [op |-> "none", schema |-> JUndefined, definitions |-> JUndefined, value |-> JUndefined]

\* the calls made: <<schema, definitions>>
DefaultCalls ==
    (DefaultSchemas \X DefinitionMaps)
        \cup ((OrderSchemas \cup PropertySchemas \cup TupleSchemas) \X {JUndefined})
        \cup (OrderSchemas \X {JObject(<<KV("Base", WithDefault(7))>>)})

DoDefaultObject ==
    \E schema \in DefaultSchemas \cup OrderSchemas \cup PropertySchemas \cup TupleSchemas,
       definitions \in DefinitionMaps :
        /\ <<schema, definitions>> \in DefaultCalls
        /\ calls < MaxCalls
        /\ calls' = calls + 1
        /\ last' = [op |-> "DefaultObject", schema |-> schema, definitions |-> definitions,
                    value |-> DefaultObject(schema, definitions)]
        /\ UNCHANGED <<heap, docs>>

NextDefault == DoDefaultObject

SpecDefault == InitDefault /\ [][NextDefault]_vars

(***************************************************************************)
(* DefaultObject on objects with identity.  The caller builds the schema   *)
(* and the definitions map as objects of its own, calls DefaultObject, and *)
(* may afterwards write into one element of an array it got back.  The     *)
(* objects of earlier calls are out of reach and left out of the heap.     *)
(***************************************************************************)
\* the `items` of a homogeneous array: with a primitive, an object or an array for
\* default, with a computed default, and with none
ItemSchemas ==
    {JObject(<<KV("type", JString("number")), KV("default", JNumber(0))>>),
     TypeString,
     JObject(<<KV("default", JObject(<<KV("x", JNumber(3))>>))>>),
     JObject(<<KV("default", JArray(<<JNumber(1), JNumber(2)>>))>>),
     OneProperty("y", 2, TRUE),
     JObject(<<TypeObject, KV("properties", JObject(<<KV("y", TypeString)>>))>>),
     RefTo("#/definitions/Base"),
     JObject(<<KV("type", JString("array")), KV("items", JArray(<<WithDefault(1), TypeString>>))>>),
     JObject(<<KV("type", JString("array")), KV("items", JArray(<<TypeString, WithDefault(1)>>))>>),
     JObject(<<KV("type", JString("array")), KV("items", OneProperty("y", 2, TRUE)), KV("minItems", JNumber(2))>>)}

\* {type: "array", items: item, minItems}
HomogeneousSchemas ==
    {JObject(<<KV("type", JString("array")), KV("items", item)>> \o m \o own) :
        item \in ItemSchemas, m \in MinItemsKeys,
        own \in {<<>>, <<KV("definitions", JObject(<<KV("Base", OneProperty("y", 2, TRUE))>>))>>}}

\* the calls made: <<schema, definitions>>
AliasCalls ==
    DefaultCalls \cup (HomogeneousSchemas \X {JUndefined, JObject(<<KV("Base", OneProperty("y", 3, TRUE))>>)})

InitAlias ==
    /\ heap = <<>>
    /\ docs = <<>>
    /\ calls = 0
    /\ last = [op |-> "none", schema |-> JUndefined, definitions |-> JUndefined, value |-> JUndefined,
               at |-> [schema |-> JUndefined, definitions |-> JUndefined, value |-> JUndefined],
               index |-> 0]

CallDefaultObject ==
    \E call \in AliasCalls :
        /\ calls < MaxCalls
        /\ calls' = calls + 1
        /\ Let(Store(<<>>, call[1]), LAMBDA s :
           Let(Store(s.h, call[2]), LAMBDA d :
           Let(DefaultObjectAt(d.h, s.x, d.x), LAMBDA r :
                /\ heap' = r.h
                /\ last' = [op |-> "DefaultObject", schema |-> call[1], definitions |-> call[2],
                            value |-> Load(r.h, r.x),
                            at |-> [schema |-> s.x, definitions |-> d.x, value |-> r.x],
                            index |-> 0])))
        /\ UNCHANGED docs

\* the caller's `value[index].touched = 1`, or `value[index].push(1)` on an array element
WriteElement ==
    /\ last.op = "DefaultObject"
    /\ IsRef(last.at.value)
    /\ At(heap, last.at.value).k = "array"
    /\ \E index \in 1..Len(At(heap, last.at.value).v) :
        /\ IsRef(At(heap, last.at.value).v[index])
        /\ Let(At(heap, last.at.value).v[index], LAMBDA element :
                heap' = IF At(heap, element).k = "object"
                        THEN Set(heap, element, "touched", JNumber(1))
                        ELSE [heap EXCEPT ![element.v[1]].v = Append(@, JNumber(1))])
        /\ last' = [last EXCEPT !.op = "write", !.index = index]
    /\ UNCHANGED <<docs, calls>>

NextAlias == CallDefaultObject \/ WriteElement

SpecAlias == InitAlias /\ [][NextAlias]_vars

(***************************************************************************)
(* The recursion of defaults, one call at a time.  heap is the call stack: *)
(* a frame holds the schema a call of defaults was made on and the values  *)
(* its own recursive calls have returned so far.  merge, mergeAllOf and    *)
(* getLocalRef walk finite values and are taken in one step.  A call       *)
(* beyond MaxDepth frames ends the computation as the engine's stack limit *)
(* does, with a RangeError.  The schemas the calls are made on are worked  *)
(* out when DefaultObject is called and kept with the frames.              *)
(***************************************************************************)
MaxDepth == 8

\* the schemas on which a call of defaults on schema calls defaults, in order,
\* were the `default` keyword not tested first
recursiveCallsPastDefault(schema, definitions) ==
    IF Defined(JGet(schema, "allOf")) THEN <<mergeAllOf(JGet(schema, "allOf").v, definitions)>>
    ELSE IF Defined(JGet(schema, "$ref"))
    THEN <<getLocalRef(JGet(schema, "$ref").v[1], definitions)>>
    ELSE IF branch(schema) = "object" /\ ~Falsy(JGet(schema, "properties"))
    THEN Let(JGet(schema, "properties").v, LAMBDA ps : Tup([i \in 1..Len(ps) |-> ps[i].val]))
    ELSE IF branch(schema) = "array" /\ ~Falsy(JGet(schema, "items"))
    THEN IF JGet(schema, "items").k = "array" THEN JGet(schema, "items").v
         ELSE <<JGet(schema, "items")>>
    ELSE <<>>

\* the schemas on which a call of defaults on schema calls defaults, in order
recursiveCalls(schema, definitions) ==
    CASE branch(schema) = "allOf" -> <<mergeAllOf(JGet(schema, "allOf").v, definitions)>>
      [] branch(schema) = "$ref" -> <<getLocalRef(JGet(schema, "$ref").v[1], definitions)>>
      [] branch(schema) = "object" /\ ~Falsy(JGet(schema, "properties")) ->
            Let(JGet(schema, "properties").v, LAMBDA ps : Tup([i \in 1..Len(ps) |-> ps[i].val]))
      [] branch(schema) = "array" /\ ~Falsy(JGet(schema, "items")) ->
            IF JGet(schema, "items").k = "array" THEN JGet(schema, "items").v
            ELSE <<JGet(schema, "items")>>
      [] OTHER -> <<>>

\* the value the call returns once its recursive calls have returned values
returnValue(schema, values) ==
    CASE branch(schema) = "default" -> JGet(schema, "default")
      [] branch(schema) \in {"allOf", "$ref"} -> values[1]
      [] branch(schema) = "object" ->
            IF Falsy(JGet(schema, "properties")) THEN JObject(<<>>)
            ELSE Let(JGet(schema, "properties").v, LAMBDA ps :
                    JObject(deleteUndefined(Tup([i \in 1..Len(ps) |-> KV(ps[i].key, values[i])]))))
      [] branch(schema) = "array" ->
            IF Falsy(JGet(schema, "items")) THEN JArray(<<>>)
            ELSE IF JGet(schema, "items").k = "array"
            THEN JArray(trimTail(values, Len(values) - 1, minItemsOf(schema)))
            ELSE IF ~Defined(values[1]) THEN JArray(<<>>)
            ELSE JArray(Tup([i \in 1..Max(1, minItemsOf(schema)) |-> cloneJSON(values[1])]))
      [] OTHER -> JUndefined

\* the calls of defaults that a call on schema at the given stack depth leads to:
\* the schema, and the same for each of its recursive calls in order; a call
\* beyond MaxDepth frames is cut off as the one the stack has no room for
RECURSIVE callTree(_, _, _)
callTree(schema, definitions, depth) ==
    [schema |-> schema,
     beyond |-> depth > MaxDepth,
     calls |-> IF depth > MaxDepth THEN <<>>
               ELSE Let(recursiveCalls(schema, definitions), LAMBDA rs :
                        Tup([i \in 1..Len(rs) |-> callTree(rs[i], definitions, depth + 1)]))]

\* the stack frame of a call: the call and the values returned to it so far
Frame(call) == [call |-> call, values |-> <<>>]

\* the bodies of the definitions A and B
BodiesOfA ==
    {WithDefault(1),
     RefTo("#/definitions/B"),
     RefTo("#/definitions/A"),
     JObject(<<KV("default", JNumber(1)), KV("$ref", JString("#/definitions/A"))>>),
     JObject(<<KV("allOf", JArray(<<JObject(<<KV("default", JNumber(1)),
                                              KV("$ref", JString("#/definitions/A"))>>)>>))>>),
     JObject(<<TypeObject, KV("properties", JObject(<<KV("x", RefTo("#/definitions/B")), KV("d", WithDefault(3))>>))>>),
     JObject(<<TypeObject, KV("properties", JObject(<<KV("d", WithDefault(3)), KV("x", RefTo("#/definitions/A"))>>))>>),
     JObject(<<KV("type", JString("string")), KV("properties", JObject(<<KV("x", RefTo("#/definitions/A"))>>))>>),
     JObject(<<KV("allOf", JArray(<<RefTo("#/definitions/B"), OneProperty("x", 1, TRUE)>>))>>),
     JObject(<<KV("type", JString("array")), KV("items", RefTo("#/definitions/B")), KV("minItems", JNumber(2))>>)}

BodiesOfB ==
    {WithDefault(2),
     TypeString,
     RefTo("#/definitions/A"),
     RefTo("#/definitions/Missing"),
     JObject(<<TypeObject, KV("properties", JObject(<<KV("y", RefTo("#/definitions/A"))>>))>>),
     JObject(<<TypeObject,
               KV("properties", JObject(<<KV("y", JObject(<<KV("default", JNull),
                                                           KV("$ref", JString("#/definitions/A"))>>))>>))>>),
     JObject(<<KV("allOf", JArray(<<RefTo("#/definitions/A")>>))>>),
     JObject(<<KV("type", JString("array")), KV("items", JArray(<<RefTo("#/definitions/A"), TypeString>>))>>)}

RecursionDefinitions == {JObject(<<KV("A", a), KV("B", b)>>) : a \in BodiesOfA, b \in BodiesOfB}

\* the schemas DefaultObject is called on
RecursionSchemas ==
    {RefTo("#/definitions/A"),
     JObject(<<TypeObject, KV("properties", JObject(<<KV("p", RefTo("#/definitions/B")), KV("q", TypeString)>>))>>),
     JObject(<<KV("allOf", JArray(<<RefTo("#/definitions/A"), OneProperty("z", 1, TRUE)>>))>>),
     JObject(<<KV("type", JString("array")), KV("items", RefTo("#/definitions/B"))>>)}

InitRecursion ==
    /\ heap = <<>>
    /\ docs = <<>>
    /\ calls = 0
    /\ last = [op |-> "none", schema |-> JUndefined, definitions |-> JUndefined, value |-> JUndefined]

\* DefaultObject(schema, definitions): the first call of defaults, on the clone
CallDefaults ==
    \E schema \in RecursionSchemas, definitions \in RecursionDefinitions :
        /\ last.op \in {"none", "returned", "RangeError"}
        /\ calls < MaxCalls
        /\ calls' = calls + 1
        /\ heap' = <<Frame(callTree(cloneJSON(schema), effectiveDefinitions(schema, definitions), 1))>>
        /\ last' = [op |-> "running", schema |-> schema,
                    definitions |-> effectiveDefinitions(schema, definitions), value |-> JUndefined]
        /\ UNCHANGED docs

\* the call on top of the stack, and the next recursive call it makes
Top == heap[Len(heap)]

TopNext == Top.call.calls[Len(Top.values) + 1]

\* the call on top of the stack makes its next recursive call
Recurse ==
    /\ last.op = "running"
    /\ Len(Top.values) < Len(Top.call.calls)
    /\ heap' = IF TopNext.beyond THEN <<>> ELSE Append(heap, Frame(TopNext))
    /\ last' = IF TopNext.beyond THEN [last EXCEPT !.op = "RangeError"] ELSE last
    /\ UNCHANGED <<docs, calls>>

\* the call on top of the stack returns to its caller
Return ==
    /\ last.op = "running"
    /\ Len(Top.values) = Len(Top.call.calls)
    /\ heap' = IF Len(heap) = 1 THEN <<>>
               ELSE [SubSeq(heap, 1, Len(heap) - 1) EXCEPT
                        ![Len(heap) - 1].values = Append(@, returnValue(Top.call.schema, Top.values))]
    /\ last' = IF Len(heap) = 1
               THEN [last EXCEPT !.op = "returned", !.value = returnValue(Top.call.schema, Top.values)]
               ELSE last
    /\ UNCHANGED <<docs, calls>>

NextRecursion == CallDefaults \/ Recurse \/ Return

\* a call once made runs on: JavaScript runs DefaultObject to completion
SpecRecursion == InitRecursion /\ [][NextRecursion]_vars /\ WF_vars(Recurse) /\ WF_vars(Return)

(***************************************************************************)
(* SchemaBuilder.ts: the static factories of the primitive kinds, Enum,    *)
(* Array and Object, and the typed additions built on AddProperty.  The    *)
(* `schema` argument (the metadata) is a tree value whose keys the literal *)
(* spreads first.                                                          *)
(***************************************************************************)
\* `type: nullable ? [t, "null"] : t`
TypeOrNull(t, nullable) == IF nullable THEN F("array", <<t, "null">>) ELSE F("scalar", <<t>>)

\* new SchemaBuilder({...CloneJSON(schema), type: nullable ? [t, "null"] : t})
Primitive(h, t, schema, nullable) ==
    FromJsonSchema(h, [schema EXCEPT !.type = TypeOrNull(t, nullable)], "undefined")

String(h, schema, nullable) == Primitive(h, "string", schema, nullable)

Number(h, schema, nullable) == Primitive(h, "number", schema, nullable)

Integer(h, schema, nullable) == Primitive(h, "integer", schema, nullable)

Boolean(h, schema, nullable) == Primitive(h, "boolean", schema, nullable)

\* typeof of an enum value.  Enum values are tokens: NullValue is null, "true" and
\* "false" are the booleans, "0" and "1" are numbers, any other token is a string
typeofValue(value) ==
    IF value = NullValue THEN "object"
    ELSE IF value \in {"true", "false"} THEN "boolean"
    ELSE IF value \in {"0", "1"} THEN "number"
    ELSE "string"

\* Enum: the loop that collects the types of the values
RECURSIVE EnumTypes(_, _)
EnumTypes(values, types) ==
    IF Len(values) = 0 THEN types
    ELSE EnumTypes(Tail(values),
            IF typeofValue(Head(values)) \in {"string", "boolean", "number"}
                    /\ ~InSeq(typeofValue(Head(values)), types)
            THEN Append(types, typeofValue(Head(values)))
            ELSE types)

\* static Enum(values, schema = {}, nullable)
Enum(h, values, schema, nullable) ==
    Let(IF nullable THEN Append(EnumTypes(values, <<>>), "null") ELSE EnumTypes(values, <<>>),
        LAMBDA types :
            FromJsonSchema(h,
                [schema EXCEPT
                    !.type = IF Len(types) = 1 THEN F("scalar", <<types[1]>>) ELSE F("array", types),
                    !.enum = IF nullable /\ ~InSeq(NullValue, values)
                             THEN F("array", Append(values, NullValue))
                             ELSE F("array", values)],
                "undefined"))

\* static Array(items, schema = {}, nullable)
Array(h, items, schema, nullable) ==
    FromJsonSchema(h,
        [schema EXCEPT !.type = TypeOrNull("array", nullable),
                       !.items = F("schema", <<Val(h, items.root)>>)],
        "undefined")

\* an Object whose properties are all required
ObjectAllRequired(h, schema, propertiesDefinition, nullable) ==
    Let(Alloc(h, [schema EXCEPT !.type = TypeOrNull("object", nullable),
                                !.additionalProperties = F("false", <<>>)]),
        LAMBDA s :
            SchemaBuilder(
                AddPropertiesLoop(EnsureProperties(s.h, s.id), s.id,
                    [i \in 1..Len(propertiesDefinition) |->
                        [propertiesDefinition[i] EXCEPT !.hasUndefined = FALSE]]),
                s.id, "undefined"))

\* static Object(schema, propertiesDefinition, nullable): the loop over the
\* definition is the one of AddProperties; `properties` is left out when empty
Object(h, schema, propertiesDefinition, nullable) ==
    Let(Alloc(h, [schema EXCEPT !.type = TypeOrNull("object", nullable),
                                !.additionalProperties = F("false", <<>>)]),
        LAMBDA s :
            IF Len(propertiesDefinition) = 0 THEN SchemaBuilder(s.h, s.id, "undefined")
            ELSE SchemaBuilder(
                    AddPropertiesLoop(EnsureProperties(s.h, s.id), s.id, propertiesDefinition),
                    s.id, "undefined"))

\* the Document handed over by a factory call inside a typed addition
Built(r) == [root |-> r.id, cfg |-> r.cfg]

AddString(h, d, propertyName, schema, isRequired, nullable) ==
    Let(String(h, schema, nullable), LAMBDA b : AddProperty(b.h, d, propertyName, Built(b), isRequired))

AddEnum(h, d, propertyName, values, schema, isRequired, nullable) ==
    Let(Enum(h, values, schema, nullable), LAMBDA b : AddProperty(b.h, d, propertyName, Built(b), isRequired))

AddNumber(h, d, propertyName, schema, isRequired, nullable) ==
    Let(Number(h, schema, nullable), LAMBDA b : AddProperty(b.h, d, propertyName, Built(b), isRequired))

AddInteger(h, d, propertyName, schema, isRequired, nullable) ==
    Let(Integer(h, schema, nullable), LAMBDA b : AddProperty(b.h, d, propertyName, Built(b), isRequired))

AddBoolean(h, d, propertyName, schema, isRequired, nullable) ==
    Let(Boolean(h, schema, nullable), LAMBDA b : AddProperty(b.h, d, propertyName, Built(b), isRequired))

AddArray(h, d, propertyName, items, schema, isRequired, nullable) ==
    Let(Array(h, items, schema, nullable), LAMBDA b : AddProperty(b.h, d, propertyName, Built(b), isRequired))

\* get Properties: [k |-> "null"] for null, else the names
Properties(h, d) ==
    IF IsObjectSchema(h, d.root) /\ ~HasSchemasCombinationKeywords(h, d.root)
    THEN F("array", PropNames(h[d.root].properties.v))
    ELSE F("null", <<>>)

\* get RequiredProperties
RequiredProperties(h, d) ==
    IF IsObjectSchema(h, d.root) /\ ~HasSchemasCombinationKeywords(h, d.root)
    THEN F("array", h[d.root].required.v)
    ELSE F("null", <<>>)

(***************************************************************************)
(* A caller that builds Documents with the factories and extends them with *)
(* the additive operations.  A Document is [root, cfg, by, built, added]:  *)
(* built tells that it was made by EmptySchema or Object and then by       *)
(* additions only, added lists those additions as [name, isRequired].      *)
(* last records the latest call and its arguments.                         *)
(***************************************************************************)
MaxBuilds == 3

BuildNames == {"a", "b"}

IsRequiredArgs == {"true", "false", "undefined"}

Metas == {EmptyNode, [EmptyNode EXCEPT !.title = F("string", <<"t">>)]}

EnumValueLists ==
    {<<"x">>, <<"x", "y">>, <<"x", "1">>, <<"1", "true", "0">>, <<NullValue>>, <<"x", NullValue>>,
     <<"true", "x", "false">>}

\* one entry of a properties definition: a single builder, or an array of builders and undefined
Entry(name, array, alts, hasUndefined) ==
    [name |-> name, array |-> array, alts |-> alts, hasUndefined |-> hasUndefined]

\* n: b1 | [b1] | [b1, undefined] | [b1, b2] | [undefined, b1, b2]
Forms(n, b1, b2) ==
    {Entry(n, FALSE, <<b1>>, FALSE), Entry(n, TRUE, <<b1>>, FALSE), Entry(n, TRUE, <<b1>>, TRUE),
     Entry(n, TRUE, <<b1, b2>>, FALSE), Entry(n, TRUE, <<b1, b2>>, TRUE)}

ObjectDefinitions(b1, b2) ==
    {<<>>} \cup {<<f>> : f \in Forms("a", b1, b2)}
           \cup {<<Entry("b", FALSE, <<b2>>, FALSE), f>> : f \in Forms("a", b1, b2)}

AddDefinitions(b1, b2) ==
    {<<f>> : f \in Forms("a", b1, b2)}
        \cup {<<Entry("b", TRUE, <<b1>>, TRUE), Entry("a", FALSE, <<b2>>, FALSE)>>}

\* how a definition adds its entries: optional iff the array holds an undefined
DefinitionAdds(def) ==
    [i \in 1..Len(def) |->
        [name |-> def[i].name,
         isRequired |-> IF def[i].array /\ def[i].hasUndefined THEN "false" ELSE "true"]]

NoCall ==
    [op |-> "none", recv |-> 0, res |-> 0, err |-> "none", def |-> <<>>, values |-> <<>>,
     nullable |-> FALSE, schema |-> EmptyNode, adds |-> <<>>]

BuildDoc(r, by, built, added) ==
    [root |-> r.id, cfg |-> r.cfg, by |-> by, built |-> built, added |-> added]

InitBuild ==
    LET r1 == String(<<>>, EmptyNode, FALSE)
        r2 == Integer(r1.h, EmptyNode, TRUE)
    IN  /\ heap = r2.h
        /\ docs = <<BuildDoc(r1, "String", FALSE, <<>>), BuildDoc(r2, "Integer", FALSE, <<>>)>>
        /\ last = NoCall
        /\ calls = 0

\* a factory call: the new Document is a base when the factory is EmptySchema or Object
Made(call, r, built, added) ==
    /\ calls < MaxBuilds
    /\ calls' = calls + 1
    /\ IF r.err = "none"
       THEN /\ heap' = r.h
            /\ docs' = Append(docs, BuildDoc(r, call.op, built, added))
            /\ last' = [call EXCEPT !.res = Len(docs) + 1]
       ELSE /\ heap' = SubSeq(r.h, 1, Len(heap))
            /\ docs' = docs
            /\ last' = [call EXCEPT !.err = r.err]

\* an addition on Document i
Added(op, i, adds, r) ==
    Made([NoCall EXCEPT !.op = op, !.recv = i, !.adds = adds], r, docs[i].built, docs[i].added \o adds)

One(n, req) == <<[name |-> n, isRequired |-> req]>>

\* Documents that are bases or extensions of bases
Bases == {i \in 1..Len(docs) : docs[i].built}

BuildEmptySchema ==
    \E nullable \in BOOLEAN :
        Made([NoCall EXCEPT !.op = "EmptySchema", !.nullable = nullable],
             EmptySchema(heap, nullable), TRUE, <<>>)

\* the calls of Object: every definition without metadata, and the empty and a
\* two-entry definition with a title or nullable
ObjectCalls(b1, b2) ==
    {<<EmptyNode, def, FALSE>> : def \in ObjectDefinitions(b1, b2)}
        \cup {<<schema, def, nullable>> :
                    schema \in Metas, nullable \in BOOLEAN,
                    def \in {<<>>, <<Entry("b", FALSE, <<b2>>, FALSE), Entry("a", TRUE, <<b1, b2>>, TRUE)>>}}

BuildObject ==
    \E call \in ObjectCalls(docs[1].root, docs[2].root) :
      LET schema == call[1]
          def == call[2]
          nullable == call[3]
      IN
        Made([NoCall EXCEPT !.op = "Object", !.def = def, !.nullable = nullable, !.schema = schema],
             Object(heap, schema, def, nullable), TRUE, DefinitionAdds(def))

BuildEnum ==
    \E values \in EnumValueLists, nullable \in BOOLEAN :
        Made([NoCall EXCEPT !.op = "Enum", !.values = values, !.nullable = nullable],
             Enum(heap, values, EmptyNode, nullable), FALSE, <<>>)

BuildAddProperty ==
    \E i \in Bases, j \in 1..Len(docs), n \in BuildNames, req \in IsRequiredArgs :
        Added("AddProperty", i, One(n, req), AddProperty(heap, docs[i], n, docs[j], req))

BuildAddString ==
    \E i \in Bases, n \in BuildNames, req \in IsRequiredArgs, nullable \in BOOLEAN :
        Added("AddString", i, One(n, req), AddString(heap, docs[i], n, EmptyNode, req, nullable))

BuildAddEnum ==
    \E i \in Bases, n \in BuildNames :
        Added("AddEnum", i, One(n, "undefined"),
              AddEnum(heap, docs[i], n, <<"x", "1">>, EmptyNode, "undefined", FALSE))

BuildAddNumber ==
    \E i \in Bases, n \in BuildNames :
        Added("AddNumber", i, One(n, "false"), AddNumber(heap, docs[i], n, EmptyNode, "false", FALSE))

BuildAddInteger ==
    \E i \in Bases, n \in BuildNames :
        Added("AddInteger", i, One(n, "true"), AddInteger(heap, docs[i], n, EmptyNode, "true", TRUE))

BuildAddBoolean ==
    \E i \in Bases, n \in BuildNames :
        Added("AddBoolean", i, One(n, "undefined"),
              AddBoolean(heap, docs[i], n, EmptyNode, "undefined", FALSE))

BuildAddArray ==
    \E i \in Bases, n \in BuildNames :
        Added("AddArray", i, One(n, "false"),
              AddArray(heap, docs[i], n, docs[1], EmptyNode, "false", FALSE))

BuildAddProperties ==
    \E i \in Bases : \E def \in AddDefinitions(docs[1].root, docs[2].root) :
        Added("AddProperties", i, DefinitionAdds(def), AddProperties(heap, docs[i], def))

NextBuild ==
    \/ BuildEmptySchema
    \/ BuildObject
    \/ BuildEnum
    \/ BuildAddProperty
    \/ BuildAddString
    \/ BuildAddEnum
    \/ BuildAddNumber
    \/ BuildAddInteger
    \/ BuildAddBoolean
    \/ BuildAddArray
    \/ BuildAddProperties

SpecBuild == InitBuild /\ [][NextBuild]_vars

(***************************************************************************)
(* A caller that starts from Documents the factories built and applies the *)
(* Builder operations to them: String(), Integer(nullable),                *)
(* Object({a: String(), b: [Integer(), undefined]}), the same with         *)
(* AddAdditionalProperties(String()), and EmptySchema().                   *)
(***************************************************************************)
InitBuilt ==
    LET r1 == String(<<>>, EmptyNode, FALSE)
        r2 == Integer(r1.h, EmptyNode, TRUE)
        r3 == Object(r2.h, EmptyNode,
                     <<Entry("a", FALSE, <<r1.id>>, FALSE), Entry("b", TRUE, <<r2.id>>, TRUE)>>, FALSE)
        d3 == Doc(r3, "Object")
        r4 == AddAdditionalProperties(r3.h, d3, TRUE, Doc(r1, "String"))
        r5 == EmptySchema(r4.h, FALSE)
    IN  /\ heap = r5.h
        /\ docs = <<Doc(r1, "String"), Doc(r2, "Integer"), d3, Doc(r4, "AddAdditionalProperties"),
                    Doc(r5, "EmptySchema")>>
        /\ last = [op |-> "none", recv |-> 0, arg |-> 0, res |-> 0, err |-> "none", schema |-> Undefined,
                   names |-> <<>>, keep |-> Omitted]
        /\ calls = 0

NextBuilt ==
    \/ DoEmptySchema
    \/ DoSetOptionalProperties
    \/ DoSetRequiredProperties
    \/ DoToOptionals
    \/ DoToDeepOptionals
    \/ DoToNullable
    \/ DoAddProperty
    \/ DoAddProperties
    \/ DoReplaceProperty
    \/ DoAddOrReplaceProperty
    \/ DoAddAdditionalProperties
    \/ DoRenameProperty
    \/ DoPickProperties
    \/ DoPickAdditionalProperties
    \/ DoOmitProperties
    \/ DoTransformProperties
    \/ DoTransformPropertiesToArray
    \/ DoUnwrapArrayProperties
    \/ DoIntersectProperties
    \/ DoMergeProperties
    \/ DoOverwriteProperties
    \/ DoSetSchemaAttributes
    \/ DoConfigureValidation
    \/ DoGetSubschema
    \/ DoGetItemsSubschema

SpecBuilt == InitBuilt /\ [][NextBuilt]_vars

(***************************************************************************)
(* SchemaBuilder.ts: the validator cache.  A validated Document is         *)
(* [root, cfg, by, ajv, validationFunction, ajvList,                       *)
(* listValidationFunction] with the four fields undefined (0) after        *)
(* construction; an Ajv instance and the function it compiles are named by *)
(* the serial number of the compilation.  compiled and listCompiled count  *)
(* the calls of ajv.compile made for the Document, validations and         *)
(* listValidations the calls that needed the function.                     *)
(***************************************************************************)
MaxValidations == 4

MaxInstances == 3

ValidatedDoc(r, by) ==
    [root |-> r.id, cfg |-> r.cfg, by |-> by,
     ajv |-> 0, validationFunction |-> 0, ajvList |-> 0, listValidationFunction |-> 0,
     compiled |-> 0, listCompiled |-> 0, validations |-> 0, listValidations |-> 0]

\* CacheValidationFunction without the test of the cached function
CacheValidationFunctionAlways(d, serial) ==
    [d EXCEPT !.ajv = serial, !.validationFunction = serial, !.compiled = @ + 1,
              !.validations = @ + 1]

\* CacheValidationFunction: compiles when no function is cached
CacheValidationFunction(d, serial) ==
    IF d.validationFunction = 0
    THEN [d EXCEPT !.ajv = serial, !.validationFunction = serial, !.compiled = @ + 1,
                   !.validations = @ + 1]
    ELSE [d EXCEPT !.validations = @ + 1]

\* CacheListValidationFunction: compiles the array schema when no function is cached
CacheListValidationFunction(d, serial) ==
    IF d.listValidationFunction = 0
    THEN [d EXCEPT !.ajvList = serial, !.listValidationFunction = serial, !.listCompiled = @ + 1,
                   !.listValidations = @ + 1]
    ELSE [d EXCEPT !.listValidations = @ + 1]

\* Validate: caches, runs the function, throws when it answers false
Validate(d, serial, valid) ==
    Let(CacheValidationFunction(d, serial), LAMBDA c :
        [d |-> c, used |-> c.validationFunction, err |-> IF valid THEN "none" ELSE "ValidationError"])

\* ValidateList: caches, runs the list function, throws when it answers false
ValidateList(d, serial, valid) ==
    Let(CacheListValidationFunction(d, serial), LAMBDA c :
        [d |-> c, used |-> c.listValidationFunction, err |-> IF valid THEN "none" ELSE "ValidationError"])

\* the serial number of the next compilation
NextSerial == SumSeq([i \in 1..Len(docs) |-> docs[i].compiled + docs[i].listCompiled]) + 1

InitValidate ==
    LET r1 == FromJsonSchema(<<>>, LitAB, "undefined")
        r2 == String(r1.h, EmptyNode, FALSE)
    IN  /\ heap = r2.h
        /\ docs = <<ValidatedDoc(r1, "FromJsonSchema"), ValidatedDoc(r2, "String")>>
        /\ last = [op |-> "none", recv |-> 0, res |-> 0, used |-> 0, err |-> "none"]
        /\ calls = 0

\* a call on Document i that leaves it as d
Validated(op, i, d, used, err) ==
    /\ calls < MaxValidations
    /\ calls' = calls + 1
    /\ docs' = [docs EXCEPT ![i] = d]
    /\ last' = [op |-> op, recv |-> i, res |-> 0, used |-> used, err |-> err]
    /\ UNCHANGED heap

CallValidate ==
    \E i \in 1..Len(docs), valid \in BOOLEAN :
        Let(Validate(docs[i], NextSerial, valid), LAMBDA r : Validated("Validate", i, r.d, r.used, r.err))

CallValidateList ==
    \E i \in 1..Len(docs), valid \in BOOLEAN :
        Let(ValidateList(docs[i], NextSerial, valid), LAMBDA r :
            Validated("ValidateList", i, r.d, r.used, r.err))

CallCacheValidationFunction ==
    \E i \in 1..Len(docs) :
        Validated("CacheValidationFunction", i, CacheValidationFunction(docs[i], NextSerial), 0, "none")

CallCacheListValidationFunction ==
    \E i \in 1..Len(docs) :
        Validated("CacheListValidationFunction", i, CacheListValidationFunction(docs[i], NextSerial), 0, "none")

\* ConfigureValidation returns a new Document, whose cache is empty
CallConfigureValidation ==
    \E i \in 1..Len(docs), cfg \in Configs :
        Let(ConfigureValidation(heap, docs[i], cfg), LAMBDA r :
            /\ calls < MaxValidations
            /\ Len(docs) < MaxInstances
            /\ calls' = calls + 1
            /\ heap' = r.h
            /\ docs' = Append(docs, ValidatedDoc(r, "ConfigureValidation"))
            /\ last' = [op |-> "ConfigureValidation", recv |-> i, res |-> Len(docs) + 1, used |-> 0,
                        err |-> "none"])

NextValidate ==
    \/ CallValidate
    \/ CallValidateList
    \/ CallCacheValidationFunction
    \/ CallCacheListValidationFunction
    \/ CallConfigureValidation

SpecValidate == InitValidate /\ [][NextValidate]_vars

(***************************************************************************)
(* A caller of ThroughJsonSchema with an action that records the node it   *)
(* is called on.  heap is the object graph of the schema handed over, last *)
(* the call: its root and the nodes the action saw, in call order.         *)
(***************************************************************************)
Leaf == Scalar("string")

\* {type: "object", properties: {x: string}, items: string}
Inner == [ObjectLit(<<P("x", Leaf)>>, <<>>, Absent) EXCEPT !.items = F("schema", <<Leaf>>)]

\* the schemas traversed: every child keyword absent or present, items as one
\* schema and as a tuple, additionalProperties as a boolean and as a schema
TraverseTrees ==
    {Undefined} \cup
    {[EmptyNode EXCEPT
        !.properties = ps, !.definitions = IF Has(ps) THEN F("map", <<P("Base", Inner)>>) ELSE Absent,
        !.oneOf = one, !.allOf = all, !.anyOf = IF Has(all) THEN F("array", <<Leaf>>) ELSE Absent,
        !.items = items, !.not = no, !.additionalProperties = addl] :
        ps \in {Absent, F("map", <<P("a", Leaf), P("b", Inner)>>)},
        one \in {Absent, F("array", <<Leaf, Inner>>)},
        all \in {Absent, F("array", <<Inner>>)},
        items \in {Absent, F("schema", <<Inner>>), F("array", <<Leaf, Inner>>)},
        no \in {Absent, F("schema", <<Leaf>>)},
        addl \in {Absent, F("false", <<>>), F("true", <<>>), F("schema", <<Inner>>)}}

InitTraverse ==
    /\ heap = <<>>
    /\ docs = <<>>
    /\ calls = 0
    /\ last = [op |-> "none", root |-> 0, visited |-> <<>>]

DoThroughJsonSchema ==
    \E t \in TraverseTrees :
        Let(Alloc(<<>>, t), LAMBDA a :
            /\ calls < MaxCalls
            /\ calls' = calls + 1
            /\ heap' = a.h
            /\ last' = [op |-> "ThroughJsonSchema", root |-> a.id, visited |-> ThroughJsonSchema(a.h, a.id)]
            /\ UNCHANGED docs)

NextTraverse == DoThroughJsonSchema

SpecTraverse == InitTraverse /\ [][NextTraverse]_vars

(***************************************************************************)
(* Properties of the Builder.  A property reads the latest call off last:  *)
(* the receiver, the argument and the returned Document are docs[last.recv],*)
(* docs[last.arg] and docs[last.res].                                      *)
(***************************************************************************)
Transformations ==
    {"SetOptionalProperties", "SetRequiredProperties", "ToOptionals", "ToDeepOptionals", "ToNullable",
     "AddProperty", "AddProperties", "ReplaceProperty", "AddOrReplaceProperty", "AddAdditionalProperties",
     "RenameProperty", "PickProperties", "PickAdditionalProperties", "OmitProperties",
     "TransformProperties", "TransformPropertiesToArray", "UnwrapArrayProperties",
     "IntersectProperties", "MergeProperties", "OverwriteProperties",
     "SetSchemaAttributes", "ConfigureValidation"}

Accessors == {"GetSubschema", "GetItemsSubschema"}

Merges == {"IntersectProperties", "MergeProperties", "OverwriteProperties"}

Returned == last.err = "none" /\ last.res # 0

\* the schemaObject of the receiver, the argument and the result of the latest call
RecvNode == heap[docs[last.recv].root]

ArgNode == heap[docs[last.arg].root]

ResNode == heap[docs[last.res].root]

\* the names of the `properties` and of the `required` keyword of a node
PropSetOf(n) == {n.properties.v[i].name : i \in 1..Len(n.properties.v)}

ReqSetOf(n) == SeqToSet(n.required.v)

\* the value of property name of the node (of heap h)
PropVal(h, n, name) == Val(h, PropGet(n.properties.v, name))

\* C1: every Builder transformation leaves the schema and the validation
\* configuration of every Document it was given (the receiver, the argument)
\* exactly as before the call, whether it returns a Document or throws.
C1_ReceiverAndArgumentUnchanged ==
    [][last'.op \in Transformations =>
            \A i \in 1..Len(docs) :
                /\ docs'[i] = docs[i]
                /\ Val(heap', docs[i].root) = Val(heap, docs[i].root)]_vars

\* a transformation with an argument Document returned; another threw after cloning
C1_Witness ==
    /\ last.op = "AddProperty"
    /\ last.arg # 0
    /\ last.err = "AlreadyExists"

\* C2: the Document returned by GetSubschema / GetItemsSubschema wraps a node
\* that is not a node of the parent Document.
C2_SubschemaIsAClone ==
    (last.op \in Accessors /\ Returned) =>
        docs[last.res].root \notin Reach(heap, docs[last.recv].root)

\* Documents made by a static factory or a transformation
Owned == {i \in 1..Len(docs) : docs[i].by \notin Accessors}

RECURSIVE ContainsRef(_)
ContainsRef(t) ==
    /\ ~IsUndefined(t)
    /\ \/ Has(t.ref)
       \/ \E i \in 1..Len(Kids(t)) : ContainsRef(Kids(t)[i])

\* C4: FromJsonSchema throws exactly when the document contains a `$ref` key
\* anywhere, `definitions` included.
C4_RefAnywhereRejected ==
    last.op = "FromJsonSchema" => (last.err = "RefError" <=> ContainsRef(last.schema))

\* the classification of a node as the claim words it
ObjectNode(n) == n.type = F("scalar", <<"object">>) \/ (~Has(n.type) /\ Has(n.properties))

Combined(n) == Has(n.oneOf) \/ Has(n.allOf) \/ Has(n.anyOf) \/ Has(n.not)

SimpleObjectNode(n) == ObjectNode(n) /\ n.additionalProperties.k = "false" /\ ~Combined(n)

RequireSimple ==
    {"SetOptionalProperties", "SetRequiredProperties", "ToNullable", "RenameProperty", "OmitProperties",
     "IntersectProperties", "MergeProperties", "OverwriteProperties",
     "TransformProperties", "TransformPropertiesToArray", "UnwrapArrayProperties"}

\* the call threw the precondition error exactly when the receiver fails pre
PreconditionIs(pre) ==
    /\ last.err = "PreconditionError" <=> ~pre
    /\ last.err # "none" => last.res = 0

\* C5 as claimed: each of the thirteen operations throws the precondition error
\* exactly when its receiver is not a simple object schema.
C5_AllRequireSimple ==
    last.op \in RequireSimple \cup {"PickProperties", "PickAdditionalProperties"} =>
        PreconditionIs(SimpleObjectNode(RecvNode))

\* C5 amended: eleven operations require a simple object schema; PickProperties
\* requires an object schema without combination keywords (additionalProperties
\* may be anything); PickAdditionalProperties requires an object schema without
\* combination keywords whose additionalProperties is not false.
C5_Preconditions ==
    /\ last.op \in RequireSimple => PreconditionIs(SimpleObjectNode(RecvNode))
    /\ last.op = "PickProperties" => PreconditionIs(ObjectNode(RecvNode) /\ ~Combined(RecvNode))
    /\ last.op = "PickAdditionalProperties" =>
            PreconditionIs(/\ ObjectNode(RecvNode)
                           /\ RecvNode.additionalProperties.k # "false"
                           /\ ~Combined(RecvNode))

\* PickProperties returned on a receiver with an additionalProperties schema
C5_Witness ==
    /\ last.op = "PickProperties"
    /\ Returned
    /\ RecvNode.additionalProperties.k = "schema"

\* name is in the `required` list of node n
Requires(n, name) == name \in ReqSetOf(n)

\* the required status a merge gives a name that is a property of both inputs
SharedStatus(name) ==
    CASE last.op = "IntersectProperties" -> Requires(RecvNode, name) \/ Requires(ArgNode, name)
      [] last.op = "MergeProperties"     -> Requires(RecvNode, name) /\ Requires(ArgNode, name)
      [] last.op = "OverwriteProperties" -> Requires(ArgNode, name)

\* the status of the names that are properties of both inputs, and of this only
SharedAndOwnStatus ==
    /\ \A name \in PropSetOf(RecvNode) \cap PropSetOf(ArgNode) :
            Requires(ResNode, name) <=> SharedStatus(name)
    /\ \A name \in PropSetOf(RecvNode) \ PropSetOf(ArgNode) :
            Requires(ResNode, name) <=> Requires(RecvNode, name)

\* C8 as claimed: in the result of a merge a shared property is required iff
\* this or other required it (Intersect), iff both did (Merge), iff other did
\* (Overwrite); a property of this only keeps its status and a property of
\* other only has other's status.
C8_RequiredStatus ==
    (last.op \in Merges /\ Returned) =>
        /\ SharedAndOwnStatus
        /\ \A name \in PropSetOf(ArgNode) \ PropSetOf(RecvNode) :
                Requires(ResNode, name) <=> Requires(ArgNode, name)

\* C8 amended: as claimed, except that a property of other only is required iff
\* other required it or the required list of this already named it.
C8_RequiredStatusAmended ==
    (last.op \in Merges /\ Returned) =>
        /\ SharedAndOwnStatus
        /\ \A name \in PropSetOf(ArgNode) \ PropSetOf(RecvNode) :
                Requires(ResNode, name) <=> (Requires(ArgNode, name) \/ Requires(RecvNode, name))

\* MergeProperties demoted a shared property that only this required, next to a
\* property of other only
C8_Witness ==
    /\ last.op = "MergeProperties"
    /\ Returned
    /\ \E name \in PropSetOf(RecvNode) \cap PropSetOf(ArgNode) :
            Requires(RecvNode, name) /\ ~Requires(ArgNode, name) /\ ~Requires(ResNode, name)
    /\ PropSetOf(ArgNode) \ PropSetOf(RecvNode) # {}

\* the latest call merged two simple object schemas with disjoint property names
DisjointMerge ==
    /\ last.op \in Merges
    /\ Returned
    /\ SimpleObjectNode(RecvNode)
    /\ SimpleObjectNode(ArgNode)
    /\ PropSetOf(RecvNode) \cap PropSetOf(ArgNode) = {}

\* the union of the tree values a and b: the properties of a followed by those
\* of b (no `properties` keyword when neither has one), the required list being
\* a's followed by required
UnionOf(a, b, required) ==
    [a EXCEPT
        !.properties = IF Has(a.properties) \/ Has(b.properties)
                       THEN F("map", a.properties.v \o b.properties.v)
                       ELSE Absent,
        !.required = IF Len(a.required.v \o required) = 0 THEN a.required
                     ELSE F("array", a.required.v \o required)]

\* the Document the latest merge returned is the union with this required list
MergedIs(required) ==
    Val(heap, docs[last.res].root) =
        UnionOf(Val(heap, docs[last.recv].root), Val(heap, docs[last.arg].root), required)

\* C9 as claimed: for disjoint property names the three merges return the same
\* Document, the union of the two property maps whose required list is A's
\* required names followed by B's required names.
C9_DisjointUnion == DisjointMerge => MergedIs(ArgNode.required.v)

\* C9 amended: the same, the required list being A's required names followed by
\* the property names of B that B requires, in the order of B's property map.
C9_DisjointUnionAmended ==
    DisjointMerge =>
        MergedIs(SelectSeq(PropNames(ArgNode.properties.v), LAMBDA name : Requires(ArgNode, name)))

\* OverwriteProperties united two disjoint schemas, B listing its required names
\* in another order than its properties
C9_Witness ==
    /\ DisjointMerge
    /\ last.op = "OverwriteProperties"
    /\ Len(ArgNode.required.v) = 2
    /\ ArgNode.required.v # SelectSeq(PropNames(ArgNode.properties.v), LAMBDA name : Requires(ArgNode, name))

\* the latest call picked a list K of property names of a simple object schema
PickedSubset ==
    /\ last.op = "PickProperties"
    /\ Returned
    /\ SimpleObjectNode(RecvNode)
    /\ SeqToSet(last.names) \subseteq PropSetOf(RecvNode)

\* OmitProperties(P \ K) for the receiver and the list K of the latest call
OmitComplement ==
    OmitProperties(heap, docs[last.recv], Difference(PropNames(RecvNode.properties.v), last.names))

\* C10: PickProperties(K) and OmitProperties(P \ K) of a simple object schema
\* with property names P, K a subset of P, have the same property names, each
\* with the same sub-schema, the same set of required names, and both have
\* additionalProperties = false.
C10_PickOmitComplement ==
    PickedSubset =>
        /\ OmitComplement.err = "none"
        /\ PropSetOf(OmitComplement.h[OmitComplement.id]) = PropSetOf(ResNode)
        /\ PropSetOf(ResNode) = SeqToSet(last.names)
        /\ \A name \in PropSetOf(ResNode) :
                PropVal(OmitComplement.h, OmitComplement.h[OmitComplement.id], name)
                    = PropVal(heap, ResNode, name)
        /\ ReqSetOf(OmitComplement.h[OmitComplement.id]) = ReqSetOf(ResNode)
        /\ OmitComplement.h[OmitComplement.id].additionalProperties.k = "false"
        /\ ResNode.additionalProperties.k = "false"

\* a proper, non-empty K was picked that drops a required name
C10_Witness ==
    /\ PickedSubset
    /\ Len(last.names) = 1
    /\ ReqSetOf(RecvNode) \ SeqToSet(last.names) # {}
    /\ ReqSetOf(ResNode) # {}

(***************************************************************************)
(* Properties of the defaults resolver, read off the latest DefaultObject   *)
(* call.                                                                   *)
(***************************************************************************)
\* a and b are the same JSON value
Same(a, b) == a.k = b.k /\ a = b

\* the latest call is on a schema with allOf and no `default` keyword of its own
AllOfCall == last.op = "DefaultObject" /\ JHas(last.schema, "allOf") /\ ~JHas(last.schema, "default")

\* the definitions the latest call resolved against
Effective == effectiveDefinitions(last.schema, last.definitions)

\* an element of the allOf list, a $ref element replaced by the definition it names
Resolved(element) ==
    IF ~JHas(element, "$ref") THEN element
    ELSE IF JHas(Effective, RefPath(JGet(element, "$ref").v[1])[1])
    THEN JGet(Effective, RefPath(JGet(element, "$ref").v[1])[1])
    ELSE JObject(<<>>)

Elements ==
    [i \in 1..Len(JGet(last.schema, "allOf").v) |-> Resolved(JGet(last.schema, "allOf").v[i])]

\* the sequence s without the repetitions of its members
RECURSIVE Distinct(_)
Distinct(s) ==
    IF Len(s) = 0 THEN <<>>
    ELSE <<Head(s)>> \o Distinct(SelectSeq(Tail(s), LAMBDA x : x # Head(s)))

\* the property names of the elements, in the order they first occur
ElementProperties ==
    Distinct(Concat([i \in 1..Len(Elements) |->
                        [j \in 1..Len(JGet(Elements[i], "properties").v) |->
                            JGet(Elements[i], "properties").v[j].key]]))

\* the elements that give property name a default, and the default the last of them gives
Defaulting(name) ==
    {i \in 1..Len(Elements) : JHas(JGet(JGet(Elements[i], "properties"), name), "default")}

LastOf(S) == CHOOSE i \in S : \A j \in S : j <= i

MergedDefault(name) ==
    JGet(JGet(JGet(Elements[LastOf(Defaulting(name))], "properties"), name), "default")

\* the mapping of the property defaults of the left-to-right merge of the elements
MergedPropertyDefaults ==
    Let(SelectSeq(ElementProperties, LAMBDA name : Defaulting(name) # {}), LAMBDA names :
        JObject([i \in 1..Len(names) |-> KV(names[i], MergedDefault(names[i]))]))

\* the elements that carry a `default` keyword of their own; those that declare type "object"
OwnDefault == {i \in 1..Len(Elements) : JHas(Elements[i], "default")}

DeclaresObject == \E i \in 1..Len(Elements) : IsString(JGet(Elements[i], "type"), "object")

RECURSIVE Overrides(_, _)
Overrides(over, under) ==
    IF isObject(over)
    THEN /\ isObject(under)
         /\ \A i \in 1..Len(over.v) : Overrides(over.v[i].val, JGet(under, over.v[i].key))
    ELSE Same(over, under)

\* C7: the definitions DefaultObject resolves against are the schema's own
\* `definitions` deep-overridden by the caller-supplied map: every entry of the
\* caller's map, down to its nested keys, is the effective one.
C7_CallerDefinitionsWin ==
    (last.op = "DefaultObject" /\ isObject(last.definitions)) => Overrides(last.definitions, Effective)

\* the object o without its key
JRemove(o, key) == JObject(SelectSeq(o.v, LAMBDA e : e.key # key))

DefaultCall == last.op = "DefaultObject"

\* the latest call is on a schema with none of default, allOf and $ref
PlainCall ==
    DefaultCall /\ ~JHas(last.schema, "default") /\ ~JHas(last.schema, "allOf") /\ ~JHas(last.schema, "$ref")

\* C18: the cases are tried in the order default, allOf, $ref, type object,
\* type array: a `default` keyword is returned as it is whatever else the schema
\* holds; allOf wins over a sibling $ref, and $ref over a sibling type, so that
\* dropping the losing keyword changes nothing; a schema matching no case has
\* no default.
C18_CaseOrder ==
    DefaultCall =>
        /\ JHas(last.schema, "default") => Same(last.value, JGet(last.schema, "default"))
        /\ (~JHas(last.schema, "default") /\ JHas(last.schema, "allOf") /\ JHas(last.schema, "$ref"))
                => Same(last.value, DefaultObject(JRemove(last.schema, "$ref"), last.definitions))
        /\ (~JHas(last.schema, "default") /\ ~JHas(last.schema, "allOf") /\ JHas(last.schema, "$ref")
                /\ JHas(last.schema, "type"))
                => Same(last.value, DefaultObject(JRemove(last.schema, "type"), last.definitions))
        /\ (PlainCall /\ ~IsString(JGet(last.schema, "type"), "object")
                /\ ~IsString(JGet(last.schema, "type"), "array"))
                => Same(last.value, JUndefined)

\* a schema with allOf [{default: 2}] beside a $ref to a definition whose default
\* is 5, and type "object" with a property: the allOf case answers 2
C18_Witness ==
    /\ DefaultCall
    /\ ~JHas(last.schema, "default")
    /\ JHas(last.schema, "allOf") /\ JHas(last.schema, "$ref") /\ JHas(last.schema, "properties")
    /\ Same(getLocalRef(JGet(last.schema, "$ref").v[1], Effective), WithDefault(5))
    /\ Same(last.value, JNumber(2))

\* C19: the default of a schema of type "object" is the mapping of exactly the
\* properties whose own default exists, each to that default, in the order of
\* the properties; a schema without `properties` yields the empty mapping.
C19_ObjectDefault ==
    (PlainCall /\ IsString(JGet(last.schema, "type"), "object")) =>
        IF ~JHas(last.schema, "properties") THEN Same(last.value, JObject(<<>>))
        ELSE /\ isObject(last.value)
             /\ \A i \in 1..Len(JGet(last.schema, "properties").v) :
                    Let(JGet(last.schema, "properties").v[i], LAMBDA p :
                        /\ JHas(last.value, p.key) <=> Defined(defaults(p.val, Effective))
                        /\ Same(JGet(last.value, p.key), defaults(p.val, Effective)))
             /\ \A i \in 1..Len(last.value.v) : JHas(JGet(last.schema, "properties"), last.value.v[i].key)
             /\ \A i, j \in 1..Len(last.value.v) : i # j => last.value.v[i].key # last.value.v[j].key

\* the example of the claim: a has the default "x", b has none, the result is {a: "x"}
C19_Witness ==
    /\ DefaultCall
    /\ last.schema =
            JObject(<<TypeObject,
                      KV("properties",
                         JObject(<<KV("a", JObject(<<KV("type", JString("string")), KV("default", JString("x"))>>)),
                                   KV("b", JObject(<<KV("type", JString("number"))>>))>>))>>)
    /\ last.value = JObject(<<KV("a", JString("x"))>>)

\* the latest call is on a tuple: type "array" with a sequence as items
TupleCall ==
    PlainCall /\ IsString(JGet(last.schema, "type"), "array") /\ JGet(last.schema, "items").k = "array"

\* the per-position defaults of the tuple, and the last position that has one
PositionDefaults ==
    [i \in 1..Len(JGet(last.schema, "items").v) |-> defaults(JGet(last.schema, "items").v[i], Effective)]

LastDefault ==
    LET S == {i \in 1..Len(PositionDefaults) : Defined(PositionDefaults[i])}
    IN  IF S = {} THEN 0 ELSE LastOf(S)

Min(a, b) == IF a < b THEN a ELSE b

DeclaredMinItems == IF JHas(last.schema, "minItems") THEN JGet(last.schema, "minItems").v[1] ELSE 0

\* C20: the default of a tuple of n per-position schemas is the sequence of the
\* per-position defaults cut after the last position that has a default, or
\* after position min(minItems, n) when that is further: a position with a
\* default is never dropped, and the positions before it are kept.
C20_TupleDefault ==
    TupleCall =>
        /\ last.value.k = "array"
        /\ last.value.v = SubSeq(PositionDefaults, 1,
                                 Max(LastDefault, Min(DeclaredMinItems, Len(PositionDefaults))))

\* a tuple of three with minItems 1 whose second position alone has a default:
\* the third position is trimmed, the first is kept without a default
C20_Witness ==
    /\ TupleCall
    /\ Len(PositionDefaults) = 3
    /\ DeclaredMinItems = 1
    /\ Len(last.value.v) = 2
    /\ ~Defined(last.value.v[1])
    /\ Defined(last.value.v[2])

\* every segment of path names a key, from root down
RECURSIVE Resolves(_, _)
Resolves(path, root) ==
    /\ JHas(root, Head(path))
    /\ Len(Tail(path)) = 0 \/ Resolves(Tail(path), JGet(root, Head(path)))

\* the latest call is on a schema whose own $ref is the case taken
RefCall == DefaultCall /\ JHas(last.schema, "$ref") /\ ~JHas(last.schema, "default") /\ ~JHas(last.schema, "allOf")

\* C23: a $ref whose path misses a segment in the definitions (no such
\* definition, or a path going on below a value without that key) raises no
\* error: getLocalRef yields the empty mapping and the referring schema has no
\* default.
C23_MissingRef ==
    (RefCall /\ ~Resolves(RefPath(JGet(last.schema, "$ref").v[1]), Effective)) =>
        /\ Same(getLocalRef(JGet(last.schema, "$ref").v[1], Effective), JObject(<<>>))
        /\ Same(last.value, JUndefined)

\* a $ref to Base/properties/y resolved against a Base that has no properties
C23_Witness ==
    /\ RefCall
    /\ RefPath(JGet(last.schema, "$ref").v[1]) = <<"Base", "properties", "y">>
    /\ JHas(Effective, "Base")
    /\ ~JHas(JGet(Effective, "Base"), "properties")
    /\ Same(last.value, JUndefined)

(***************************************************************************)
(* Properties of the Builder, continued.                                   *)
(***************************************************************************)
\* the sequence s with every entry equal to x replaced by y
Renamed(s, x, y) == [i \in 1..Len(s) |-> IF s[i] = x THEN y ELSE s[i]]

\* the latest call is RenameProperty(old, new), returned, of a property the receiver declares
RenameCall ==
    /\ last.op = "RenameProperty"
    /\ Returned
    /\ last.names[1] \in PropSetOf(RecvNode)

\* C11: RenameProperty(old, new) moves the schema of `old` unchanged to key `new`
\* and removes key `old`; `new` is required in the result iff `old` was required,
\* its entry of the required list renamed in place; every other property and
\* its required status are unchanged.
C11_RenameInPlace ==
    RenameCall =>
        /\ PropSetOf(ResNode) = (PropSetOf(RecvNode) \ {last.names[1]}) \cup {last.names[2]}
        /\ PropVal(heap, ResNode, last.names[2]) = PropVal(heap, RecvNode, last.names[1])
        /\ ResNode.required.v = Renamed(RecvNode.required.v, last.names[1], last.names[2])
        /\ \A name \in PropSetOf(RecvNode) \ {last.names[1], last.names[2]} :
                PropVal(heap, ResNode, name) = PropVal(heap, RecvNode, name)

\* the type and the enum of an optional property, as C12 words their widening
NullableType(type) ==
    IF type.k = "scalar" /\ type.v[1] # "null" THEN F("array", <<type.v[1], "null">>)
    ELSE IF type.k = "array" /\ "null" \notin SeqToSet(type.v) THEN F("array", Append(type.v, "null"))
    ELSE type

NullableEnum(enum) ==
    IF Has(enum) /\ NullValue \notin SeqToSet(enum.v) THEN F("array", Append(enum.v, NullValue)) ELSE enum

\* the schema C12 gives the property whose schema (a tree value) was o
NullableOf(o) ==
    IF Has(o.type) THEN [o EXCEPT !.type = NullableType(o.type), !.enum = NullableEnum(o.enum)]
    ELSE [EmptyNode EXCEPT !.anyOf = F("array", <<o, Scalar("null")>>)]

\* C12: ToNullable on a simple object schema changes only the optional
\* properties: a scalar type t other than "null" becomes [t, "null"], an array
\* type lacking "null" gets it appended, the enum of such a property gains
\* null, and a property without `type` becomes anyOf: [original, {type: "null"}];
\* the schemas of the required properties, the required list and every other
\* keyword are as in the receiver.
C12_ToNullable ==
    (last.op = "ToNullable" /\ Returned) =>
        /\ [Val(heap, docs[last.res].root) EXCEPT !.properties = Val(heap, docs[last.recv].root).properties]
                = Val(heap, docs[last.recv].root)
        /\ PropNames(ResNode.properties.v) = PropNames(RecvNode.properties.v)
        /\ \A name \in PropSetOf(RecvNode) :
                PropVal(heap, ResNode, name) =
                    IF name \in ReqSetOf(RecvNode) THEN PropVal(heap, RecvNode, name)
                    ELSE NullableOf(PropVal(heap, RecvNode, name))

\* ToNullable returned on a receiver with an optional property that has an
\* array type, one that has an enum and one that has no type
C12_Witness ==
    /\ last.op = "ToNullable"
    /\ Returned
    /\ \E x, y, z \in PropSetOf(RecvNode) \ ReqSetOf(RecvNode) :
            /\ PropVal(heap, RecvNode, x).type.k = "array"
            /\ Has(PropVal(heap, RecvNode, y).type) /\ Has(PropVal(heap, RecvNode, y).enum)
            /\ ~Has(PropVal(heap, RecvNode, z).type)
            /\ Has(PropVal(heap, ResNode, z).anyOf)

\* the additionalProperties of a schema (a tree value), an absent keyword read as `true`
Additional(t) == IF Has(t.additionalProperties) THEN t.additionalProperties ELSE F("true", <<>>)

\* the schema a captured additional property gets: a copy of the original
\* additionalProperties schema, the empty schema when that is `true` or absent
CapturedSchema(t) ==
    IF t.additionalProperties.k = "schema" THEN t.additionalProperties.v[1] ELSE EmptyNode

PickAdditionalCall == last.op = "PickAdditionalProperties" /\ Returned

\* C14: PickAdditionalProperties(names, keep), on every receiver that allows
\* additional properties (its additionalProperties keyword absent included),
\* keeps exactly the named properties and: with keep omitted, preserves the
\* original additionalProperties; with an empty keep, sets it to false and adds
\* nothing; with a non-empty keep, sets it to false and adds every name of keep
\* as a required property whose schema is a copy of the original
\* additionalProperties schema.
C14_PickAdditional ==
    PickAdditionalCall =>
        LET recv == Val(heap, docs[last.recv].root)
            res == Val(heap, docs[last.res].root)
            named == SeqToSet(last.names) \cap PropSetOf(RecvNode)
            kept == SeqToSet(last.keep.v)
        IN  /\ {n \in PropSetOf(ResNode) : PropGet(ResNode.properties.v, n) # 0} = named \cup kept
            /\ \A n \in named \ kept : PropVal(heap, ResNode, n) = PropVal(heap, RecvNode, n)
            /\ \A n \in kept : PropVal(heap, ResNode, n) = CapturedSchema(recv) /\ n \in ReqSetOf(ResNode)
            /\ \A n \in named \ kept : n \in ReqSetOf(ResNode) <=> n \in ReqSetOf(RecvNode)
            /\ Additional(res) = IF last.keep.k = "undefined" THEN Additional(recv) ELSE F("false", <<>>)

(***************************************************************************)
(* Properties of the factories and of the additive operations, read off    *)
(* the Documents of the building caller.                                   *)
(***************************************************************************)
Additions ==
    {"AddProperty", "AddString", "AddEnum", "AddNumber", "AddInteger", "AddBoolean", "AddArray",
     "AddProperties"}

\* the names of a list of additions; those added as required (isRequired true or omitted)
AddedNames(added) == [i \in 1..Len(added) |-> added[i].name]

AddedRequired(added) ==
    AddedNames(SelectSeq(added, LAMBDA e : e.isRequired \in {"true", "undefined"}))

\* C13: for a Document built from EmptySchema/Object and then additive
\* operations only, Properties is the sequence of the added names in order of
\* addition and RequiredProperties the subsequence of those added as required;
\* an addition whose name is already present fails and contributes nothing.
C13_RoundTrip ==
    /\ \A i \in Bases :
            /\ Properties(heap, docs[i]) = F("array", AddedNames(docs[i].added))
            /\ RequiredProperties(heap, docs[i]) = F("array", AddedRequired(docs[i].added))
    /\ (last.op \in Additions
            /\ \E k \in 1..Len(last.adds) : last.adds[k].name \in SeqToSet(AddedNames(docs[last.recv].added)))
        => (last.err # "none" /\ last.res = 0)

\* the schema C15 gives a property defined by entry e (alternatives read in heap h)
DefinedSchema(h, e) ==
    IF Len(e.alts) = 1 THEN Val(h, e.alts[1])
    ELSE [EmptyNode EXCEPT !.anyOf = F("array", [i \in 1..Len(e.alts) |-> Val(h, e.alts[i])])]

\* C15: Object(meta, propertyMap, nullable) builds a schema with
\* additionalProperties false whose properties are those of the map; a property
\* is optional iff its map value is an array containing undefined; its schema
\* is the single non-undefined alternative when there is one, and anyOf of the
\* alternatives when there are several.
C15_Object ==
    (last.op = "Object" /\ Returned) =>
        /\ ResNode.additionalProperties = F("false", <<>>)
        /\ PropNames(ResNode.properties.v) = AddedNames(last.def)
        /\ \A k \in 1..Len(last.def) :
                /\ last.def[k].name \in ReqSetOf(ResNode)
                        <=> ~(last.def[k].array /\ last.def[k].hasUndefined)
                /\ PropVal(heap, ResNode, last.def[k].name) = DefinedSchema(heap, last.def[k])
        /\ ReqSetOf(ResNode) \subseteq PropSetOf(ResNode)

\* Object returned for a map with a required single sub-schema and an optional
\* array of two alternatives, stored as anyOf
C15_Witness ==
    /\ last.op = "Object"
    /\ Returned
    /\ \E j, k \in 1..Len(last.def) :
            /\ ~last.def[j].array
            /\ last.def[j].name \in ReqSetOf(ResNode)
            /\ last.def[k].hasUndefined /\ Len(last.def[k].alts) = 2
            /\ last.def[k].name \notin ReqSetOf(ResNode)
            /\ Len(PropVal(heap, ResNode, last.def[k].name).anyOf.v) = 2

\* the JSON type of an enum value, and the set of types of a `type` keyword
JsonTypeOf(value) == IF value = NullValue THEN "null" ELSE typeofValue(value)

TypeSet(type) == SeqToSet(type.v)

Occurrences(s, x) == Cardinality({i \in 1..Len(s) : s[i] = x})

\* C16: Enum(values, meta, nullable) gives a type set that is exactly the set
\* of the types present among the values, so that every enum value is admitted
\* by it, with "null" added to the type set and null to the enum when nullable
\* is requested and null is not there yet; neither holds null twice.
C16_Enum ==
    (last.op = "Enum" /\ Returned) =>
        /\ TypeSet(ResNode.type) =
                {JsonTypeOf(last.values[i]) : i \in 1..Len(last.values)}
                    \cup (IF last.nullable THEN {"null"} ELSE {})
        /\ \A i \in 1..Len(ResNode.enum.v) : JsonTypeOf(ResNode.enum.v[i]) \in TypeSet(ResNode.type)
        /\ ResNode.enum.v =
                IF last.nullable /\ ~InSeq(NullValue, last.values)
                THEN Append(last.values, NullValue) ELSE last.values
        /\ Occurrences(ResNode.type.v, "null") <= 1
        /\ Occurrences(ResNode.enum.v, NullValue) <= 1

(***************************************************************************)
(* Properties of the validator cache.                                      *)
(***************************************************************************)
SingleOps == {"Validate", "CacheValidationFunction"}

ListOps == {"ValidateList", "CacheListValidationFunction"}

SingleCache(d) == <<d.ajv, d.validationFunction, d.compiled>>

ListCache(d) == <<d.ajvList, d.listValidationFunction, d.listCompiled>>

OthersUntouched ==
    /\ PropNames(ResNode.properties.v) = PropNames(RecvNode.properties.v)
    /\ \A name \in PropSetOf(RecvNode) \ SeqToSet(last.names) :
            PropVal(heap, ResNode, name) = PropVal(heap, RecvNode, name)

\* C24: SetOptionalProperties(names) leaves as required list the old one minus
\* names, in its order, without the keyword when nothing remains, and removes
\* the default of every named property; SetRequiredProperties(names) appends
\* the names not yet required and creates no duplicate; neither changes the
\* schema of a property that is not named.
C24_OptionalRequired ==
    /\ (last.op = "SetOptionalProperties" /\ Returned) =>
            /\ ResNode.required.v = SelectSeq(RecvNode.required.v, LAMBDA x : ~InSeq(x, last.names))
            /\ Has(ResNode.required) <=> ReqSetOf(RecvNode) \ SeqToSet(last.names) # {}
            /\ \A name \in PropSetOf(RecvNode) \cap SeqToSet(last.names) :
                    /\ ~Has(PropVal(heap, ResNode, name).default)
                    /\ PropVal(heap, ResNode, name) = [PropVal(heap, RecvNode, name) EXCEPT !.default = Absent]
            /\ OthersUntouched
    /\ (last.op = "SetRequiredProperties" /\ Returned) =>
            /\ ResNode.required.v =
                    RecvNode.required.v \o SelectSeq(last.names, LAMBDA x : ~InSeq(x, RecvNode.required.v))
            /\ \A x \in ReqSetOf(ResNode) :
                    Occurrences(ResNode.required.v, x) <= Max(1, Occurrences(RecvNode.required.v, x))
            /\ PropNames(ResNode.properties.v) = PropNames(RecvNode.properties.v)
            /\ \A name \in PropSetOf(RecvNode) : PropVal(heap, ResNode, name) = PropVal(heap, RecvNode, name)

\* SetOptionalProperties of the only required property, which had a default:
\* the result has no required keyword and the property no default
C24_Witness ==
    /\ last.op = "SetOptionalProperties"
    /\ Returned
    /\ \E name \in SeqToSet(last.names) \cap ReqSetOf(RecvNode) :
            /\ Has(PropVal(heap, RecvNode, name).default)
            /\ ~Has(PropVal(heap, ResNode, name).default)
    /\ PropSetOf(RecvNode) \ SeqToSet(last.names) # {}
    /\ ~Has(ResNode.required)

\* the second application of ToNullable, on the Document the latest call returned
Twice == ToNullable(heap, docs[last.res])

\* the optional properties of the receiver that have no `type` keyword
Untyped == {name \in PropSetOf(RecvNode) \ ReqSetOf(RecvNode) : ~Has(PropVal(heap, RecvNode, name).type)}

\* C29 as claimed: d.ToNullable().ToNullable() equals d.ToNullable() for every
\* simple object schema d, whatever its optional properties declare.
C29_Idempotent ==
    (last.op = "ToNullable" /\ Returned) =>
        /\ Twice.err = "none"
        /\ Val(Twice.h, Twice.id) = Val(heap, docs[last.res].root)

\* C29 amended: a second ToNullable leaves every property that is required or
\* has a `type` keyword (scalar, array, with an enum) as the first made it, and
\* every other keyword of the schema; an optional property with no `type`
\* keyword is wrapped in anyOf [property, {type: "null"}] once more.
C29_IdempotentTyped ==
    (last.op = "ToNullable" /\ Returned) =>
        /\ Twice.err = "none"
        /\ [Val(Twice.h, Twice.id) EXCEPT !.properties = Val(heap, docs[last.res].root).properties]
                = Val(heap, docs[last.res].root)
        /\ PropNames(Twice.h[Twice.id].properties.v) = PropNames(ResNode.properties.v)
        /\ \A name \in PropSetOf(RecvNode) :
                PropVal(Twice.h, Twice.h[Twice.id], name) =
                    IF name \in Untyped
                    THEN [EmptyNode EXCEPT !.anyOf = F("array", <<PropVal(heap, ResNode, name), NullType>>)]
                    ELSE PropVal(heap, ResNode, name)

\* ToNullable returned on a receiver with an optional property whose type it
\* widened to an array and an optional property without a type that it wrapped
C29_Witness ==
    /\ last.op = "ToNullable"
    /\ Returned
    /\ Untyped # {}
    /\ \E x \in PropSetOf(RecvNode) \ ReqSetOf(RecvNode) :
            /\ PropVal(heap, RecvNode, x).type.k = "array"
            /\ PropVal(heap, ResNode, x).type.v = Append(PropVal(heap, RecvNode, x).type.v, "null")
    /\ \E y \in PropSetOf(RecvNode) \ ReqSetOf(RecvNode) :
            /\ Has(PropVal(heap, RecvNode, y).type) /\ Has(PropVal(heap, RecvNode, y).enum)
            /\ InSeq(NullValue, PropVal(heap, ResNode, y).enum.v)

\* C28: every Document the EmptySchema and Object factories return, nullable
\* or not, is an object schema and a simple object schema, and AddProperty,
\* AddProperties, ReplaceProperty and SetRequiredProperties meet no
\* precondition error on it.
C28_FactoriesSimple ==
    (last.op \in {"EmptySchema", "Object"} /\ Returned) =>
        /\ IsObjectSchema(heap, docs[last.res].root)
        /\ IsSimpleObjectSchema(heap, docs[last.res].root)
        /\ AddProperty(heap, docs[last.res], "z", docs[1], "true").err = "none"
        /\ AddProperties(heap, docs[last.res], <<Entry("z", FALSE, <<docs[1].root>>, FALSE)>>).err = "none"
        /\ ReplaceProperty(heap, docs[last.res], "z", "builder", docs[1], "true").err = "none"
        /\ SetRequiredProperties(heap, docs[last.res], <<>>).err = "none"

(***************************************************************************)
(* Properties of the traversal.                                            *)
(***************************************************************************)
\* the child schemas of a node in the order the contract lists them
ListedChildren(n) ==
    MapC(n.properties.v) \o n.oneOf.v \o n.allOf.v \o n.anyOf.v \o n.items.v \o n.not.v
        \o n.additionalProperties.v

\* the node id and the schema nodes nested below it
RECURSIVE Nested(_, _)
Nested(h, id) == {id} \cup UNION {Nested(h, ListedChildren(h[id])[i]) : i \in 1..Len(ListedChildren(h[id]))}

\* the call number of node x
Visit(x) == CHOOSE i \in 1..Len(last.visited) : last.visited[i] = x

\* C25: on a tree-shaped schema the action is called exactly once on every
\* nested schema node and on nothing else, a node before all of its
\* descendants, which follow it without a gap, and the children of a node in
\* the order properties, oneOf, allOf, anyOf, items (element by element for a
\* tuple), not, additionalProperties when that is a schema.
C25_PreOrder ==
    (last.op = "ThroughJsonSchema" /\ last.root # 0) =>
        /\ \A i, j \in 1..Len(last.visited) : i # j => last.visited[i] # last.visited[j]
        /\ SeqToSet(last.visited) = Nested(heap, last.root)
        /\ \A x \in Nested(heap, last.root) :
                /\ {last.visited[j] : j \in {k \in 1..Len(last.visited) :
                                                /\ k >= Visit(x)
                                                /\ k < Visit(x) + Cardinality(Nested(heap, x))}}
                        = Nested(heap, x)
                /\ \A i, j \in 1..Len(ListedChildren(heap[x])) :
                        i < j => Visit(ListedChildren(heap[x])[i]) < Visit(ListedChildren(heap[x])[j])

\* a traversal of a schema with every child keyword, a tuple as items, a schema
\* as additionalProperties and a definitions entry that is not visited
C25_Witness ==
    /\ last.op = "ThroughJsonSchema"
    /\ last.root # 0
    /\ \A key \in {"properties", "oneOf", "allOf", "anyOf", "not", "definitions"} : Has(heap[last.root][key])
    /\ heap[last.root].items.k = "array"
    /\ heap[last.root].additionalProperties.k = "schema"
    /\ Len(last.visited) = Cardinality(Nested(heap, last.root))
    /\ Len(last.visited) < Len(heap)

(***************************************************************************)
(* Invariants of the Documents built by the factories and the operations.  *)
(***************************************************************************)
\* C26: in every Document built by EmptySchema / Object and then by Builder
\* operations that returned, every name of the required list is a key of
\* `properties` that holds a schema.
C26_RequiredWithinProperties ==
    \A i \in Live :
        \A name \in ReqSetOf(heap[docs[i].root]) :
            /\ PropIn(heap[docs[i].root].properties.v, name)
            /\ PropGet(heap[docs[i].root].properties.v, name) # 0

\* C27: in every Document built by EmptySchema / Object and then by Builder
\* operations that returned, the required list holds no name twice.
C27_NoDuplicateRequired ==
    \A i \in Live :
        \A name \in ReqSetOf(heap[docs[i].root]) : Occurrences(heap[docs[i].root].required.v, name) = 1

(***************************************************************************)
(* Properties of DefaultObject on objects with identity (SpecAlias).       *)
(***************************************************************************)
\* the value the caller's schema and definitions objects hold now
SchemaNow == Load(heap, last.at.schema)

DefinitionsNow == Load(heap, last.at.definitions)

\* C22: DefaultObject never mutates caller state: after the call the schema
\* object and the definitions object the caller passed in hold, at every depth,
\* the values they held before it, whatever case of defaults the schema takes
C22_CallerUntouched ==
    last.op = "DefaultObject" => SchemaNow = last.schema /\ DefinitionsNow = last.definitions

\* a call with a definitions argument on a schema with definitions of its own,
\* whose object case replaced or deleted properties of the working copy
C22_Witness ==
    /\ last.op = "DefaultObject"
    /\ IsString(JGet(last.schema, "type"), "object")
    /\ JHas(last.schema, "definitions")
    /\ isObject(last.definitions)
    /\ last.value # JGet(last.schema, "properties")
    /\ SchemaNow = last.schema
    /\ DefinitionsNow = last.definitions

\* the call is, or was before the caller's write, one on a homogeneous array
\* schema: items is one schema, and no earlier case of defaults applies
HomogeneousCall ==
    /\ last.op \in {"DefaultObject", "write"}
    /\ branch(last.schema) = "array"
    /\ isObject(JGet(last.schema, "items"))

\* the computed default of the item schema
ItemDefault ==
    defaults(JGet(cloneJSON(last.schema), "items"), effectiveDefinitions(last.schema, last.definitions))

\* the elements of the array returned, as vals and as the values they hold now
ArrayElements == At(heap, last.at.value).v

ElementNow(i) == Load(heap, ArrayElements[i])

\* the length the homogeneous case gives the array
C21_Length ==
    /\ IsRef(last.at.value)
    /\ At(heap, last.at.value).k = "array"
    /\ Len(ArrayElements) = IF Defined(ItemDefault) THEN Max(1, minItemsOf(last.schema)) ELSE 0

\* no cell is reachable from two elements
C21_Disjoint ==
    \A i \in 1..Len(ArrayElements) : \A j \in 1..Len(ArrayElements) :
        i # j => Cells(heap, ArrayElements[i]) \cap Cells(heap, ArrayElements[j]) = {}

\* C21: for a homogeneous array schema the default is the empty sequence when
\* the item schema has no default, and otherwise a sequence of exactly
\* max(1, minItems) elements, each equal to the item's computed default and
\* each an independent deep copy: a write into one element changes no other
C21_Homogeneous ==
    HomogeneousCall =>
        /\ C21_Length
        /\ C21_Disjoint
        /\ \A i \in 1..Len(ArrayElements) : i # last.index => ElementNow(i) = ItemDefault

\* what does hold of the homogeneous case: the elements each equal the JSON
\* round trip of the item's computed default, in which a position without
\* default is null
C21_HomogeneousRoundTrip ==
    HomogeneousCall =>
        /\ C21_Length
        /\ C21_Disjoint
        /\ \A i \in 1..Len(ArrayElements) : i # last.index => ElementNow(i) = cloneJSON(ItemDefault)

(***************************************************************************)
(* Properties of the recursion of defaults (SpecRecursion).                *)
(***************************************************************************)
\* the definitions a schema refers to by `$ref`: on itself, in the elements of
\* its allOf, in the schemas of its properties and in its items.  When open, a
\* schema with a `default` keyword counts for nothing, its default being
\* returned before any reference of it is followed; an allOf element that
\* carries `$ref` counts whatever else it carries, mergeAllOf replacing the
\* whole element by the definition
RECURSIVE RefsIn(_, _)
RefsIn(s, open) ==
    IF s.k = "array" THEN UNION {RefsIn(s.v[i], open) : i \in 1..Len(s.v)}
    ELSE IF s.k # "object" \/ (open /\ JHas(s, "default")) THEN {}
    ELSE (IF JGet(s, "$ref").k = "string" THEN {Head(RefPath(JGet(s, "$ref").v[1]))} ELSE {})
         \cup (IF JGet(s, "allOf").k = "array"
               THEN UNION {IF JGet(JGet(s, "allOf").v[i], "$ref").k = "string"
                           THEN {Head(RefPath(JGet(JGet(s, "allOf").v[i], "$ref").v[1]))}
                           ELSE RefsIn(JGet(s, "allOf").v[i], open) :
                           i \in 1..Len(JGet(s, "allOf").v)}
               ELSE {})
         \cup (IF isObject(JGet(s, "properties"))
               THEN UNION {RefsIn(JGet(s, "properties").v[i].val, open) :
                           i \in 1..Len(JGet(s, "properties").v)}
               ELSE {})
         \cup RefsIn(JGet(s, "items"), open)

\* the definitions reached from the definitions in from by one to n references
RECURSIVE ReachedIn(_, _, _, _)
ReachedIn(definitions, open, from, n) ==
    IF n = 0 THEN {}
    ELSE Let(UNION {RefsIn(JGet(definitions, name), open) : name \in from}, LAMBDA next :
            next \cup ReachedIn(definitions, open, next, n - 1))

\* some definition reaches itself through `$ref`
SelfReaching(definitions, open) ==
    \E i \in 1..Len(definitions.v) :
        definitions.v[i].key \in ReachedIn(definitions, open, {definitions.v[i].key}, Len(definitions.v))

\* C30: default computation terminates: when no definition reaches itself
\* through `$ref` (directly, through allOf, through properties or through
\* items) a call of DefaultObject returns after finitely many recursive calls;
\* and the recursion fails to end only when a definition reaches itself through
\* `$ref` with no `default` keyword tested on the way
C30_Terminates ==
    /\ [](last.op = "RangeError" => SelfReaching(last.definitions, TRUE))
    /\ ((last.op = "running" /\ ~SelfReaching(last.definitions, FALSE)) ~> last.op = "returned")

\* a call on {$ref: A} that has returned after it followed A and, in a property
\* of A, B, no definition reaching itself
C30_Witness ==
    /\ last.op = "returned"
    /\ last.schema = RefTo("#/definitions/A")
    /\ ~SelfReaching(last.definitions, FALSE)
    /\ last.value = JObject(<<KV("x", JNumber(2)), KV("d", JNumber(3))>>)
====
